---- MODULE Spec2Model ----
(***************************************************************************)
(* Clock-offset estimation, drift correction, calibration and event        *)
(* timestamp compensation of the sprint-gate timing engine (RaceProvider,  *)
(* useSystemCalibration).                                                  *)
(*                                                                         *)
(* All times are integers in ticks: one millisecond is Scale ticks, so the *)
(* halvings, the mean over the startup burst and the 0.3 smoothing factor  *)
(* of the code are exact in the model.                                     *)
(***************************************************************************)
EXTENDS Integers, Sequences, FiniteSets, Bags, TLC

\* ------------------------------------------------------------------ bounds
\* Number of firings of the periodic sync timer a behaviour may contain.
MaxCycles == 2
\* Reference (server) time minus performance.now(), in ms.
RefMinusPerf == 1000
\* Local Date.now() minus performance.now() (the page's time origin), in ms.
DateMinusPerf == 900

RECURSIVE Pow10(_)
Pow10(n) == IF n = 0 THEN 1 ELSE 10 * Pow10(n - 1)

\* Ticks per millisecond: every applied correction multiplies by 3/10.
Scale == 10 * Pow10(MaxCycles)

Ms(x) == x * Scale

\* ------------------------------------------------------- program constants
SYNC_INTERVAL_MS == 30000
SAMPLES_PER_SYNC == 5
\* SMOOTHING_FACTOR 0.3 as the fraction SmoothNum / SmoothDen
SmoothNum == 3
SmoothDen == 10
MAX_CORRECTION_MS == 50
OUTLIER_THRESHOLD_MS == 200
burstCount == 5

\* ------------------------------------------------------------ environment
\* One-way latencies <<upload, download>> (ms) a round trip to the
\* reference time source may have: none, asymmetric (RTT 160 ms, estimate
\* 70 ms off), RTT exactly at the outlier threshold, RTT above it.
Latencies == { <<0, 0>>, <<150, 10>>, <<100, 100>>, <<150, 150>> }

\* Readings of performance.now() (ms) at which a probe may be sent.
PerfTimes == { 0, 500 }

Abs(x) == IF x < 0 THEN -x ELSE x
Max2(a, b) == IF a > b THEN a ELSE b
Min2(a, b) == IF a < b THEN a ELSE b

VARIABLES
    isConnected,    \* useState isConnected
    offset,         \* useState offset (ClockOffset), ticks
    burstPc,        \* position of the 'connected' handler
    burstI,         \* loop index i of the startup burst
    totalOffset,    \* local totalOffset of the startup burst
    burstLog,       \* bag of the per-sample offsets the burst has measured
    isSyncing,      \* isSyncingRef.current
    cycles,         \* performDriftSync invocations in flight
    fired,          \* number of firings of the periodic timer so far
    lastSync,       \* <<>> or <<outcome of the last performDriftSync call>>
    stats,          \* useState stats (CalibrationStats)
    isCalibrating,  \* useState isCalibrating
    latencySeen,    \* TRUE once some probe had a non-zero network latency
    channel,        \* gate-trigger messages published and not yet delivered
    recentEvents,   \* useState recentEvents (newest first)
    gateCalls,      \* number of triggerGate calls so far
    lastEval,       \* << >> or << inputs and result of the last compensation >>
    gateConfig,     \* useState gateConfig
    distanceConfig, \* useState distanceConfig
    lastConfig,     \* << count >> right after a config-change message, else << >>
    isArmed,        \* MotionGate useState isArmed
    sensitivity,    \* MotionGate useState sensitivity
    lastTrigger,    \* MotionGate useState lastTrigger as handleMotion sees it
    pendingTrigger, \* << >> or << value of a setLastTrigger not yet rendered >>
    lastMotion,     \* << >> or << the last onMotion call and its outcome >>
    lastAccepted,   \* << >> or << time of the last accepted motion trigger >>
    mounted,        \* TRUE until the cleanups of RaceProvider's effects have run
    clock,          \* local time (ms) as the timers see it
    connectedAt,    \* << >> or << clock at the 'connected' event >>
    initialDelay,   \* << >> or << due time of setTimeout(startPeriodicSync) >>
    syncInterval,   \* syncIntervalRef: << >> or << due time of the next firing >>
    probeLog,       \* every sample the cycle in flight has measured, kept or not
    calibIn,        \* << >> or << what the last published calibration observed >>
    fpsWatch,       \* << >> or << frames and elapsed ms of a pending measureFPS >>
    videoSize,      \* << video.videoWidth, video.videoHeight >>
    canvasSize,     \* << canvasRef.current.width, canvasRef.current.height >>
    previousFrame,  \* previousFrameRef.current: << >> (null) or << strip data >>
    lastFrame,      \* << >> or << what the last processFrame call saw and did >>
    peerClock,      \* true time (ms) on which the peers' clocks are read
    connections,    \* PeerTransport.connections of every peer
    wire,           \* messages in flight on each client's data connection
    peerOffset,     \* PeerTransport.offset of every peer
    pendingRequests,\* PeerTransport.pendingRequests of every peer
    timeReqs,       \* the getServerTime() promises and their timeout timers
    syncLoop,       \* position and locals of each client's performStartupSync
    published,      \* the publish() calls so far
    onEventLog      \* the config.onEvent calls of every peer so far

\* State of the race configuration next to the event log.
logVars == << gateConfig, distanceConfig, lastConfig >>

\* State of the motion gate component.
motionVars == << isArmed, sensitivity, lastTrigger, pendingTrigger, lastMotion,
                 lastAccepted >>

\* State of the frame differencing of useCanvasMotion.
frameVars == << videoSize, canvasSize, previousFrame, lastFrame >>

\* State of the peer-to-peer transport and of its peers.
peerVars == << peerClock, connections, wire, peerOffset, pendingRequests,
              timeReqs, syncLoop, published, onEventLog >>

\* State of the event path; the estimator and the calibration leave it alone.
gateVars == << channel, recentEvents, gateCalls, lastEval, logVars, motionVars,
              frameVars, peerVars >>

\* The provider's lifetime and its two timers.
lifeVars == << mounted, clock, connectedAt, initialDelay, syncInterval >>

\* What the last measurements saw.
obsVars == << probeLog, calibIn >>

\* Positions and locals of the burst, the drift correction and the calibration.
estVars == << burstPc, burstI, totalOffset, burstLog, isSyncing, cycles,
              fired, lastSync, isCalibrating, latencySeen >>

\* State of the burst, the drift correction and the calibration run.
syncVars == << estVars, lifeVars, obsVars, fpsWatch >>

vars == << isConnected, offset, stats, syncVars, gateVars >>


\* ---------------------------------------------- reference time round trip
\* One `await ablyClient.time()` bracketed by two performance.now() reads:
\* sent at local time startMs, answered after lat[1] ms with the reference
\* time at that instant, received lat[2] ms later.
ablyTime(startMs, lat) ==
    [ start      |-> Ms(startMs),
      serverTime |-> Ms(startMs + lat[1] + RefMinusPerf),
      end        |-> Ms(startMs + lat[1] + lat[2]) ]

NonZero(lat) == lat[1] # 0 \/ lat[2] # 0

\* ------------------------------------------------------------ startup burst
\* A state setter that still writes after the provider is gone.
SetOffsetUnmounted(current, value) == value

\* setOffset(value): React drops the update of a component that is unmounted.
SetOffset(current, value) == IF mounted THEN value ELSE current

\* The periodic drift correction effect, run by the render that follows
\* setIsConnected(true) (ably is set since the mount):
\* setTimeout(startPeriodicSync, SYNC_INTERVAL_MS).
PeriodicEffect ==
    /\ initialDelay' = << clock + SYNC_INTERVAL_MS >>
    /\ connectedAt' = << clock >>
    /\ UNCHANGED << mounted, clock, syncInterval >>

\* ablyInstance.connection.once('connected', ...): setIsConnected(true), the
\* first time() request of the burst, and the effect that depends on
\* isConnected.  A closed instance never connects.
Connect ==
    /\ mounted
    /\ burstPc = "idle"
    /\ isConnected' = TRUE
    /\ burstPc' = "running"
    /\ burstI' = 0
    /\ totalOffset' = 0
    /\ PeriodicEffect
    /\ UNCHANGED << offset, burstLog, isSyncing, cycles, fired, lastSync,
                    stats, isCalibrating, latencySeen >>
    /\ UNCHANGED << gateVars, obsVars, fpsWatch >>

\* One iteration of the burst loop: the reply of time() arrives, the sample
\* is added to totalOffset, the handler sleeps 100 ms.
BurstSample(p) ==
    LET latency == (p.end - p.start) \div 2
        predictedServerTime == p.serverTime + latency
        currentOffset == predictedServerTime - p.end
    IN  currentOffset

BurstProbe ==
    /\ burstPc = "running"
    /\ burstI < burstCount
    /\ \E startMs \in PerfTimes, lat \in Latencies :
         LET p == ablyTime(startMs, lat) IN
         /\ totalOffset' = totalOffset + BurstSample(p)
         /\ burstLog' = burstLog (+) SetToBag({ BurstSample(p) })
         /\ latencySeen' = (latencySeen \/ NonZero(lat))
    /\ burstI' = burstI + 1
    /\ UNCHANGED << isConnected, offset, burstPc, isSyncing, cycles, fired,
                    lastSync, stats, isCalibrating >>
    /\ UNCHANGED << gateVars, lifeVars, obsVars, fpsWatch >>

\* A rejection that takes the connection down with it.
BurstFailDisconnects ==
    /\ burstPc = "running"
    /\ burstI < burstCount
    /\ burstPc' = "failed"
    /\ burstI' = 0
    /\ totalOffset' = 0
    /\ burstLog' = EmptyBag
    /\ isConnected' = FALSE
    /\ UNCHANGED << offset,
                    isSyncing, cycles, fired, lastSync, stats, isCalibrating,
                    latencySeen >>
    /\ UNCHANGED << gateVars, lifeVars, obsVars, fpsWatch >>

\* time() rejects: the async handler ends with an unhandled rejection and
\* never reaches setOffset.
BurstFail ==
    /\ burstPc = "running"
    /\ burstI < burstCount
    /\ burstPc' = "failed"
    /\ burstI' = 0
    /\ totalOffset' = 0
    /\ burstLog' = EmptyBag
    /\ UNCHANGED << isConnected, offset,
                    isSyncing, cycles, fired, lastSync, stats, isCalibrating,
                    latencySeen >>
    /\ UNCHANGED << gateVars, lifeVars, obsVars, fpsWatch >>

\* A burst that clamps its first measurement like a drift correction.
InitialOffsetClamped(total) ==
    Max2(-Ms(MAX_CORRECTION_MS), Min2(Ms(MAX_CORRECTION_MS), total \div burstCount))

InitialOffset(total) == total \div burstCount

\* After the loop: setOffset(totalOffset / burstCount).
BurstFinish ==
    /\ burstPc = "running"
    /\ burstI = burstCount
    /\ offset' = SetOffset(offset, InitialOffset(totalOffset))
    /\ burstPc' = "done"
    /\ burstI' = 0
    /\ totalOffset' = 0
    /\ burstLog' = EmptyBag
    /\ UNCHANGED << isConnected, isSyncing,
                    cycles, fired, lastSync, stats, isCalibrating,
                    latencySeen >>
    /\ UNCHANGED << gateVars, lifeVars, obsVars, fpsWatch >>

\* ------------------------------------------------- periodic drift correction
RemoveAt(s, k) == [ i \in 1..(Len(s) - 1) |-> IF i < k THEN s[i] ELSE s[i + 1] ]

\* Array.prototype.sort with (a, b) => a.rtt - b.rtt (stable).
RECURSIVE InsertByRtt(_, _)
InsertByRtt(sorted, x) ==
    IF sorted = << >> THEN << x >>
    ELSE IF Head(sorted).rtt <= x.rtt
         THEN << Head(sorted) >> \o InsertByRtt(Tail(sorted), x)
         ELSE << x >> \o sorted

RECURSIVE SortByRtt(_)
SortByRtt(s) ==
    IF s = << >> THEN << >>
    ELSE InsertByRtt(SortByRtt(SubSeq(s, 1, Len(s) - 1)), s[Len(s)])

\* A correction that is passed on as measured.
ClampCorrectionOff(rawCorrection) == rawCorrection

\* Math.max(-MAX, Math.min(MAX, rawCorrection))
ClampCorrection(rawCorrection) ==
    Max2(-Ms(MAX_CORRECTION_MS), Min2(Ms(MAX_CORRECTION_MS), rawCorrection))

\* Smoothing applied to the raw correction, the clamp to the smoothed one.
SmoothThenClamp(currentOffset, newOffset) ==
    LET rawCorrection == newOffset - currentOffset
    IN  currentOffset + ClampCorrection((rawCorrection * SmoothNum) \div SmoothDen)

\* currentOffset + clampedCorrection * SMOOTHING_FACTOR
SmoothedOffset(currentOffset, newOffset) ==
    LET rawCorrection == newOffset - currentOffset
        clampedCorrection == ClampCorrection(rawCorrection)
    IN  currentOffset + (clampedCorrection * SmoothNum) \div SmoothDen

\* The sample kept by one loop iteration of performDriftSync.
DriftSample(p) ==
    LET rtt == p.end - p.start
        latency == rtt \div 2
        predictedServerTime == p.serverTime + latency
        sampleOffset == predictedServerTime - p.end
    IN  [ rtt |-> rtt, offset |-> sampleOffset ]

\* if (rtt < OUTLIER_THRESHOLD_MS) samples.push(...)
KeepSample(samples, smp) ==
    IF smp.rtt < Ms(OUTLIER_THRESHOLD_MS) THEN Append(samples, smp) ELSE samples

\* A performDriftSync without the in-progress check.
SyncNeverBusy == FALSE

\* if (isSyncingRef.current) return currentOffset;
SyncBusy == isSyncing

\* A functional update that forgets to return the current value.
TimerUpdateLost(currentOffset) == 0

\* The value the functional update of the timer callback returns to setOffset.
TimerUpdate(currentOffset) == currentOffset

\* The first firing comes two SYNC_INTERVAL_MS after the connection (the
\* initial delay, then the interval): the burst, five round trips of at most
\* MaxRttMs and five 100 ms sleeps, has ended or failed by then.
MaxRttMs == 1000
TimerMayFire ==
    burstPc = "running" => burstCount * (MaxRttMs + 100) >= 2 * SYNC_INTERVAL_MS

\* The setInterval callback: setOffset(currentOffset => { performDriftSync(
\* ably, currentOffset).then(...); return currentOffset }).  A call made
\* while a cycle is in flight returns currentOffset at once, and the
\* continuation then writes nothing.  When the timer is due, and what is
\* recorded of the samples, is said where the action is used.
DriftTrigger ==
    /\ isConnected
    /\ TimerMayFire
    /\ fired < MaxCycles
    /\ fired' = fired + 1
    /\ offset' = TimerUpdate(offset)
    /\ IF SyncBusy
       THEN /\ lastSync' = << [ outcome |-> "busy", ret |-> offset ] >>
            /\ UNCHANGED << isSyncing, cycles >>
       ELSE /\ isSyncing' = TRUE
            /\ cycles' = Append(cycles, [ cur |-> offset, i |-> 0,
                                          samples |-> << >> ])
            /\ UNCHANGED lastSync
    /\ UNCHANGED << isConnected, burstPc, burstI, totalOffset,
                    burstLog, stats, isCalibrating, latencySeen >>
    /\ UNCHANGED << gateVars, mounted, connectedAt, initialDelay, calibIn,
                    fpsWatch >>

\* One iteration of the sample loop of cycle k, and the 50 ms sleep, for a
\* round trip sent at startMs with one-way latencies lat.
DriftProbeWith(k, startMs, lat) ==
    /\ k \in 1..Len(cycles)
    /\ cycles[k].i < SAMPLES_PER_SYNC
    /\ LET smp == DriftSample(ablyTime(startMs, lat)) IN
         /\ cycles' = [ cycles EXCEPT ![k].i = @ + 1,
                                      ![k].samples = KeepSample(@, smp) ]
         /\ latencySeen' = (latencySeen \/ NonZero(lat))
    /\ UNCHANGED << isConnected, offset, burstPc, burstI, totalOffset,
                    burstLog, isSyncing, fired, lastSync, stats,
                    isCalibrating >>
    /\ UNCHANGED << gateVars, lifeVars, calibIn, fpsWatch >>

DriftProbe(k) ==
    \E startMs \in PerfTimes, lat \in Latencies :
       DriftProbeWith(k, startMs, lat) /\ UNCHANGED probeLog

\* A failing probe that leaves the cycle through the catch without the
\* finally block: the flag stays set.
DriftProbeFailKeepsFlag(k) ==
    /\ k \in 1..Len(cycles)
    /\ cycles[k].i < SAMPLES_PER_SYNC
    /\ lastSync' = << [ outcome |-> "error", ret |-> cycles[k].cur ] >>
    /\ cycles' = RemoveAt(cycles, k)
    /\ UNCHANGED << isConnected, offset, burstPc, burstI, totalOffset,
                    burstLog, fired, stats, isCalibrating,
                    latencySeen, isSyncing >>
    /\ UNCHANGED << gateVars, lifeVars, obsVars, fpsWatch >>

\* time() rejects inside the loop: catch returns currentOffset, finally
\* clears the flag; the continuation sees newOffset === currentOffset.
DriftProbeFail(k) ==
    /\ k \in 1..Len(cycles)
    /\ cycles[k].i < SAMPLES_PER_SYNC
    /\ isSyncing' = FALSE
    /\ lastSync' = << [ outcome |-> "error", ret |-> cycles[k].cur ] >>
    /\ cycles' = RemoveAt(cycles, k)
    /\ UNCHANGED << isConnected, offset, burstPc, burstI, totalOffset,
                    burstLog, fired, stats, isCalibrating,
                    latencySeen >>
    /\ UNCHANGED << gateVars, lifeVars, obsVars, fpsWatch >>

\* A performDriftSync without the empty-samples return: the missing best
\* sample counts as offset 0.
DriftResultNoGuard(currentOffset, samples) ==
    LET newOffset == IF Len(samples) = 0 THEN 0
                     ELSE SortByRtt(samples)[1].offset
    IN  SmoothedOffset(currentOffset, newOffset)

\* A cycle that takes its latest sample as the best one.
DriftResultLatest(currentOffset, samples) ==
    IF Len(samples) = 0
    THEN currentOffset
    ELSE SmoothedOffset(currentOffset, samples[Len(samples)].offset)

\* Value returned by performDriftSync after the loop.
DriftResult(currentOffset, samples) ==
    IF Len(samples) = 0
    THEN currentOffset
    ELSE LET bestSample == SortByRtt(samples)[1]
         IN  SmoothedOffset(currentOffset, bestSample.offset)

\* .then(newOffset => { if (newOffset !== currentOffset) setOffset(newOffset) })
ApplySync(current, currentOffset, newOffset) ==
    IF newOffset # currentOffset THEN newOffset ELSE current

\* Loop done: result computed, flag cleared, continuation applied.
DriftFinish(k) ==
    /\ k \in 1..Len(cycles)
    /\ cycles[k].i = SAMPLES_PER_SYNC
    /\ LET c == cycles[k]
           newOffset == DriftResult(c.cur, c.samples)
       IN  /\ offset' = SetOffset(offset, ApplySync(offset, c.cur, newOffset))
           /\ lastSync' = << [ outcome |-> IF Len(c.samples) = 0
                                           THEN "all_rejected" ELSE "applied",
                               ret |-> newOffset ] >>
    /\ isSyncing' = FALSE
    /\ cycles' = RemoveAt(cycles, k)
    /\ UNCHANGED << isConnected, burstPc, burstI, totalOffset, burstLog,
                    fired, stats, isCalibrating, latencySeen >>
    /\ UNCHANGED << gateVars, lifeVars, obsVars, fpsWatch >>

\* ------------------------------------------------------ lifetime and timers
\* Number of steps of the clock a behaviour may contain.
MaxTicks == 8
\* Length of one step of the clock (ms).
TickMs == 15000

TimerDue(timer) == timer # << >> /\ timer[1] <= clock

\* A burst or a cycle, five round trips of at most MaxRttMs with their sleeps,
\* is over before the clock steps.
InFlightMayLast ==
    (burstPc = "running" \/ cycles # << >>) =>
        burstCount * (MaxRttMs + 100) >= TickMs

\* Time passes; a timer that is due fires before it does.
Tick ==
    /\ clock < MaxTicks * TickMs
    /\ ~TimerDue(initialDelay)
    /\ ~TimerDue(syncInterval)
    /\ InFlightMayLast
    /\ clock' = clock + TickMs
    /\ UNCHANGED << isConnected, offset, stats, estVars, gateVars, obsVars,
                    fpsWatch,
                    mounted, connectedAt, initialDelay, syncInterval >>

\* An initial delay that fires the first cycle itself.
StartPeriodicSyncAtOnce ==
    /\ TimerDue(initialDelay)
    /\ initialDelay' = << >>
    /\ syncInterval' = << clock >>
    /\ UNCHANGED << isConnected, offset, stats, estVars, gateVars, obsVars,
                    fpsWatch,
                    mounted, clock, connectedAt >>

\* The initial delay is over: startPeriodicSync() calls
\* setInterval(..., SYNC_INTERVAL_MS), whose first firing is one interval on.
StartPeriodicSync ==
    /\ TimerDue(initialDelay)
    /\ initialDelay' = << >>
    /\ syncInterval' = << clock + SYNC_INTERVAL_MS >>
    /\ UNCHANGED << isConnected, offset, stats, estVars, gateVars, obsVars,
                    fpsWatch,
                    mounted, clock, connectedAt >>

\* The interval timer fires and runs its callback.
IntervalFires ==
    /\ TimerDue(syncInterval)
    /\ syncInterval' = << syncInterval[1] + SYNC_INTERVAL_MS >>
    /\ DriftTrigger
    /\ UNCHANGED << clock, probeLog >>

\* The provider unmounts: channel.unsubscribe() and ablyInstance.close() of
\* the connection effect, clearTimeout(initialDelay) and
\* clearInterval(syncIntervalRef.current) of the periodic effect.  Round
\* trips in flight are not cancelled.
Teardown ==
    /\ mounted
    /\ mounted' = FALSE
    /\ initialDelay' = << >>
    /\ syncInterval' = << >>
    /\ UNCHANGED << isConnected, offset, stats, estVars, gateVars, obsVars,
                    fpsWatch,
                    clock, connectedAt >>

\* ------------------------------------------------------------- calibration
SAMPLE_COUNT == 10
PING_COUNT == 10
SAMPLES == 50
\* Wait requested by each jitter sample (ms); RTT limit of a valid exchange.
JitterWaitMs == 10
AsymRttLimitMs == 500

RECURSIVE SumSeq(_)
SumSeq(s) == IF s = << >> THEN 0 ELSE Head(s) + SumSeq(Tail(s))

RECURSIVE SelectSamples(_)
\* The samples array after the loop: the entries that were pushed, in order.
SelectSamples(s) ==
    IF s = << >> THEN << >>
    ELSE IF Head(s).keep THEN << Head(s).smp >> \o SelectSamples(Tail(s))
         ELSE SelectSamples(Tail(s))

\* An exchange whose one-way estimates are the raw timestamp differences,
\* without the clock offset taken out.
AsymSampleUncorrected(e) ==
    LET t1 == Ms(e.start + DateMinusPerf)
        perfStart == Ms(e.start)
        t2 == Ms(e.start + e.up + RefMinusPerf)
        t3 == t2 + Ms(e.proc)
        t4 == Ms(e.start + e.up + e.proc + e.down + DateMinusPerf)
        perfEnd == Ms(e.start + e.up + e.proc + e.down)
        rtt == perfEnd - perfStart
        clockOffset == ((t2 - t1) + (t3 - t4)) \div 2
        uploadEst == t2 - t1
        downloadEst == t4 - t3
    IN  [ keep |-> e.ok /\ uploadEst > 0 /\ downloadEst > 0
                        /\ rtt < Ms(AsymRttLimitMs),
          smp  |-> [ rtt |-> rtt, uploadEst |-> uploadEst,
                     downloadEst |-> downloadEst,
                     clockOffset |-> clockOffset ] ]

\* One 4-timestamp exchange with /api/time-sync, sent at performance.now()
\* = startMs: t1 and t4 are Date.now() readings, rtt is a performance.now()
\* difference.  e.ok = FALSE is a fetch that throws (sample skipped).
AsymSample(e) ==
    LET t1 == Ms(e.start + DateMinusPerf)
        perfStart == Ms(e.start)
        t2 == Ms(e.start + e.up + RefMinusPerf)
        t3 == t2 + Ms(e.proc)
        t4 == Ms(e.start + e.up + e.proc + e.down + DateMinusPerf)
        perfEnd == Ms(e.start + e.up + e.proc + e.down)
        rtt == perfEnd - perfStart
        clockOffset == ((t2 - t1) + (t3 - t4)) \div 2
        uploadEst == (t2 - t1) - clockOffset
        downloadEst == (t4 - t3) + clockOffset
    IN  [ keep |-> e.ok /\ uploadEst > 0 /\ downloadEst > 0
                        /\ rtt < Ms(AsymRttLimitMs),
          smp  |-> [ rtt |-> rtt, uploadEst |-> uploadEst,
                     downloadEst |-> downloadEst,
                     clockOffset |-> clockOffset ] ]

\* The representative offset taken from the fastest exchange instead of the
\* median one.
measureAsymmetricLatencyFastest(run) ==
    LET samples == SelectSamples([ i \in 1..Len(run) |-> AsymSample(run[i]) ])
        n == Len(samples)
        sorted == SortByRtt(samples)
        medianIdx == n \div 2
        medianSample == sorted[1]
        avgRTT == SumSeq([ i \in 1..n |-> samples[i].rtt ]) \div n
        avgUpload == SumSeq([ i \in 1..n |-> samples[i].uploadEst ]) \div n
        avgDownload == SumSeq([ i \in 1..n |-> samples[i].downloadEst ]) \div n
    IN  IF n = 0 THEN << >>
        ELSE << [ rtt |-> avgRTT, uploadLatency |-> avgUpload,
                  downloadLatency |-> avgDownload,
                  clockOffset |-> medianSample.clockOffset ] >>

\* measureAsymmetricLatency over one run of SAMPLE_COUNT exchanges: << >>
\* for null, else << result >>.
measureAsymmetricLatency(run) ==
    LET samples == SelectSamples([ i \in 1..Len(run) |-> AsymSample(run[i]) ])
        n == Len(samples)
        sorted == SortByRtt(samples)
        medianIdx == n \div 2
        medianSample == sorted[medianIdx + 1]
        avgRTT == SumSeq([ i \in 1..n |-> samples[i].rtt ]) \div n
        avgUpload == SumSeq([ i \in 1..n |-> samples[i].uploadEst ]) \div n
        avgDownload == SumSeq([ i \in 1..n |-> samples[i].downloadEst ]) \div n
    IN  IF n = 0 THEN << >>
        ELSE << [ rtt |-> avgRTT, uploadLatency |-> avgUpload,
                  downloadLatency |-> avgDownload,
                  clockOffset |-> medianSample.clockOffset ] >>

RECURSIVE IndexOf(_, _, _)
IndexOf(s, x, i) ==
    IF i > Len(s) THEN 0 ELSE IF s[i] = x THEN i ELSE IndexOf(s, x, i + 1)

RECURSIVE MinSeq(_)
MinSeq(s) == IF Len(s) = 1 THEN s[1] ELSE Min2(Head(s), MinSeq(Tail(s)))

\* measureNetworkAbly over one run of PING_COUNT time() round trips.
measureNetworkAbly(run) ==
    LET probe(i) == ablyTime(run[i].start, << run[i].up, run[i].down >>)
        pings == [ i \in 1..Len(run) |-> probe(i).end - probe(i).start ]
        localTime(i) == probe(i).end + Ms(DateMinusPerf)
        offsets == [ i \in 1..Len(run) |->
                       (probe(i).serverTime - pings[i] \div 2) - localTime(i) ]
        avgRTT == SumSeq(pings) \div Len(pings)
        minRTT == MinSeq(pings)
        bestPingIndex == IndexOf(pings, minRTT, 1)
    IN  [ rtt |-> avgRTT, bestOffset |-> offsets[bestPingIndex],
          uploadLatency |-> avgRTT \div 2, downloadLatency |-> avgRTT \div 2 ]

\* measureJitter over the actual durations (ticks) of the SAMPLES waits.
measureJitter(waits) ==
    SumSeq([ i \in 1..Len(waits) |-> waits[i] - Ms(JitterWaitMs) ]) \div SAMPLES

\* Math.round for a non-negative quotient a / b.
RoundDiv(a, b) == (2 * a + b) \div (2 * b)

\* measureFPS: `frames` callbacks seen when the window closes after
\* elapsedMs of local time.
measureFPS(frames, elapsedMs) ==
    LET fps == RoundDiv(frames * 1000, elapsedMs)
    IN  [ fps |-> fps, frameDuration |-> Ms(1000) \div fps ]

DefaultStats ==
    [ networkOffset |-> 0, networkRTT |-> 0, uploadLatency |-> 0,
      downloadLatency |-> 0, fps |-> 0, frameDuration |-> 0, systemLag |-> 0,
      isCalibrated |-> FALSE ]

AsymEntry(ok, up, down) ==
    [ ok |-> ok, start |-> 0, up |-> up, down |-> down, proc |-> 0 ]

AblyEntry(up, down) == [ start |-> 0, up |-> up, down |-> down ]

\* What one calibration run may observe: the SAMPLE_COUNT exchanges with
\* /api/time-sync, the PING_COUNT time() round trips of the fallback, the
\* actual durations of the jitter waits, and << >> (no video element) or
\* << frames, elapsed ms >> of the FPS watch.
CalibInputs ==
    { \* endpoint unavailable, zero-latency fallback, no scheduler lag
      [ asym  |-> [ i \in 1..SAMPLE_COUNT |-> AsymEntry(FALSE, 0, 0) ],
        ably  |-> [ i \in 1..PING_COUNT |-> AblyEntry(0, 0) ],
        waits |-> [ i \in 1..SAMPLES |-> Ms(JitterWaitMs) ],
        video |-> << >> ],
      \* zero-latency exchanges, fallback with latency
      [ asym  |-> [ i \in 1..SAMPLE_COUNT |-> AsymEntry(TRUE, 0, 0) ],
        ably  |-> [ i \in 1..PING_COUNT |->
                      IF i = 3 THEN AblyEntry(10, 10) ELSE AblyEntry(30, 50) ],
        waits |-> [ i \in 1..SAMPLES |-> Ms(JitterWaitMs + 4) ],
        video |-> << 25, 1000 >> ],
      \* every exchange valid
      [ asym  |-> [ i \in 1..SAMPLE_COUNT |-> AsymEntry(TRUE, 10, 30) ],
        ably  |-> [ i \in 1..PING_COUNT |-> AblyEntry(0, 0) ],
        waits |-> [ i \in 1..SAMPLES |-> Ms(JitterWaitMs + 4) ],
        video |-> << 51, 1020 >> ],
      \* half of the exchanges over the RTT limit
      [ asym  |-> [ i \in 1..SAMPLE_COUNT |->
                      IF i <= 5 THEN AsymEntry(TRUE, 40, 20)
                                ELSE AsymEntry(TRUE, 300, 300) ],
        ably  |-> [ i \in 1..PING_COUNT |-> AblyEntry(0, 0) ],
        waits |-> [ i \in 1..SAMPLES |-> Ms(JitterWaitMs) ],
        video |-> << >> ] }

RunHasLatency(run) == \E i \in 1..Len(run) : run[i].up # 0 \/ run[i].down # 0

\* The snapshot runCalibration passes to setStats.
Snapshot(asymmetricStats, netStats, systemLag, fpsStats) ==
    [ networkOffset |-> IF asymmetricStats = << >> THEN 0
                        ELSE asymmetricStats[1].clockOffset,
      networkRTT |-> netStats.rtt,
      uploadLatency |-> netStats.uploadLatency,
      downloadLatency |-> netStats.downloadLatency,
      systemLag |-> systemLag,
      fps |-> fpsStats.fps,
      frameDuration |-> fpsStats.frameDuration,
      isCalibrated |-> TRUE ]

\* useEffect(..., [stats.isCalibrated, stats.networkOffset]): runs when one of
\* the two dependencies changed; if (isCalibrated) setOffset(networkOffset).
CalibrationEffect(current, old, new) ==
    IF /\ (old.isCalibrated # new.isCalibrated
             \/ old.networkOffset # new.networkOffset)
       /\ new.isCalibrated
    THEN new.networkOffset
    ELSE current

\* The body of runCalibration on one set of observations: the snapshot it
\* passes to setStats, and whether a round trip it used had latency.
RunCalibration(in) ==
    LET asymmetricStats == measureAsymmetricLatency(in.asym)
        netStats == IF asymmetricStats # << >> THEN asymmetricStats[1]
                    ELSE measureNetworkAbly(in.ably)
        fpsStats == IF in.video # << >>
                    THEN measureFPS(in.video[1], in.video[2])
                    ELSE [ fps |-> 0, frameDuration |-> 0 ]
    IN  [ snapshot |-> Snapshot(asymmetricStats, netStats,
                                measureJitter(in.waits), fpsStats),
          latency  |-> (RunHasLatency(in.asym)
                          \/ (asymmetricStats = << >>
                                /\ RunHasLatency(in.ably))) ]

CalibrationRuns == { RunCalibration(in) : in \in CalibInputs }

\* The "Run Calibration Sequence" button (disabled while calibrating or not
\* connected): setIsCalibrating(true) and the measurements start.
CalibStart ==
    /\ isConnected
    /\ ~isCalibrating
    /\ isCalibrating' = TRUE
    /\ UNCHANGED << isConnected, offset, burstPc, burstI, totalOffset,
                    burstLog, isSyncing, cycles, fired, lastSync, stats,
                    latencySeen >>
    /\ UNCHANGED << gateVars, lifeVars, obsVars, fpsWatch >>

\* A run that writes its network figures into the statistics it finds and
\* leaves the other fields as they are.
CalibPublishPartial ==
    /\ isCalibrating
    /\ \E run \in CalibrationRuns :
         /\ stats' = [ stats EXCEPT
                         !.networkOffset = run.snapshot.networkOffset,
                         !.networkRTT = run.snapshot.networkRTT,
                         !.uploadLatency = run.snapshot.uploadLatency,
                         !.downloadLatency = run.snapshot.downloadLatency,
                         !.isCalibrated = TRUE ]
         /\ offset' = CalibrationEffect(offset, stats, run.snapshot)
         /\ latencySeen' = (latencySeen \/ run.latency)
    /\ isCalibrating' = FALSE
    /\ UNCHANGED << isConnected, burstPc, burstI, totalOffset, burstLog,
                    isSyncing, cycles, fired, lastSync >>
    /\ UNCHANGED << gateVars, lifeVars, obsVars, fpsWatch >>

\* The measurements of one run complete: setStats(snapshot), the offset
\* effect, and setIsCalibrating(false).
CalibPublishRun(run) ==
    /\ isCalibrating
    /\ stats' = run.snapshot
    /\ offset' = CalibrationEffect(offset, stats, run.snapshot)
    /\ latencySeen' = (latencySeen \/ run.latency)
    /\ isCalibrating' = FALSE
    /\ UNCHANGED << isConnected, burstPc, burstI, totalOffset, burstLog,
                    isSyncing, cycles, fired, lastSync >>
    /\ UNCHANGED << gateVars, lifeVars, probeLog >>

CalibPublish ==
    \E run \in CalibrationRuns :
       CalibPublishRun(run) /\ UNCHANGED << calibIn, fpsWatch >>

\* time() of the symmetric fallback rejects: the catch of runCalibration logs
\* and the run ends without setStats.
CalibFail ==
    /\ isCalibrating
    /\ isCalibrating' = FALSE
    /\ UNCHANGED << isConnected, offset, burstPc, burstI, totalOffset,
                    burstLog, isSyncing, cycles, fired, lastSync, stats,
                    latencySeen >>
    /\ UNCHANGED << gateVars, lifeVars, obsVars, fpsWatch >>

\* if (now - startTime >= 1000): the window of the FPS watch (ms).
FpsWindowMs == 1000

\* Local time between two frame callbacks of the watched video (ms).
FrameGapsMs == { 20, 40, 250 }

\* The network and jitter part of a run whose exchanges with /api/time-sync
\* are all valid and whose waits show a little scheduler lag.
WatchedNetwork ==
    RunCalibration(
      [ asym  |-> [ i \in 1..SAMPLE_COUNT |-> AsymEntry(TRUE, 10, 30) ],
        ably  |-> [ i \in 1..PING_COUNT |-> AblyEntry(0, 0) ],
        waits |-> [ i \in 1..SAMPLES |-> Ms(JitterWaitMs + 4) ],
        video |-> << >> ])

\* That run with its fpsStats: { fps: 0, frameDuration: 0 } without a video
\* element (video = << >>), else what measureFPS resolved with.
WatchedRun(video) ==
    LET fpsStats == IF video = << >> THEN [ fps |-> 0, frameDuration |-> 0 ]
                    ELSE measureFPS(video[1], video[2])
    IN  [ WatchedNetwork EXCEPT
            !.snapshot = [ @ EXCEPT !.fps = fpsStats.fps,
                                    !.frameDuration = fpsStats.frameDuration ] ]

\* The network and jitter measurements of a run without a video element are
\* over: fpsStats stays { fps: 0, frameDuration: 0 } and the run publishes.
CalibPublishNoVideo ==
    /\ fpsWatch = << >>
    /\ CalibPublishRun(WatchedRun(<< >>))
    /\ UNCHANGED << calibIn, fpsWatch >>

\* The measurements of a run with a video element are over and measureFPS
\* is awaited: frames = 0, startTime = performance.now(), and the frame
\* callback is requested from the video.
MeasureFPSStart ==
    /\ isCalibrating
    /\ fpsWatch = << >>
    /\ fpsWatch' = << [ frames |-> 0, elapsed |-> 0 ] >>
    /\ UNCHANGED << isConnected, offset, stats, estVars, lifeVars, obsVars,
                    gateVars >>

\* frameCallback, called by the video for a frame it presents, gap ms after
\* the previous one: frames++, and either the window is over and the promise
\* resolves (the run publishes), or the callback is requested again.
FrameCallback(gap) ==
    /\ fpsWatch # << >>
    /\ LET frames == fpsWatch[1].frames + 1
           elapsed == fpsWatch[1].elapsed + gap
       IN  IF elapsed >= FpsWindowMs
           THEN /\ fpsWatch' = << >>
                /\ CalibPublishRun(WatchedRun(<< frames, elapsed >>))
                /\ UNCHANGED calibIn
           ELSE /\ fpsWatch' = << [ frames |-> frames, elapsed |-> elapsed ] >>
                /\ UNCHANGED << isConnected, offset, stats, estVars, lifeVars,
                                obsVars, gateVars >>

\* --------------------------------------------------- event compensation
\* Number of triggerGate calls a behaviour may contain.
MaxEvents == 2

\* JavaScript values of the optional metadata fields.
Undefined == [ type |-> "undefined", num |-> 0 ]
Null == [ type |-> "null", num |-> 0 ]
Num(x) == [ type |-> "number", num |-> x ]

\* metadata?.field
Field(metadata, f) ==
    IF metadata.type = "object" THEN metadata[f] ELSE Undefined

\* v !== undefined && v !== null
Present(v) == v.type # "undefined" /\ v.type # "null"

\* if (v): a number other than 0
Truthy(v) == v.type = "number" /\ v.num # 0

\* The original triggerGate: no camera latency, no compensation of an
\* uncalibrated motion event.
UnifiedTimeFrameOnly(now, off, st, source, metadata) ==
    LET t0 == now + off
        t1 == t0 - st.systemLag
        t2 == IF source = "motion" THEN t1 - st.frameDuration \div 2 ELSE t1
        t3 == IF source = "motion" /\ Truthy(Field(metadata, "processingLatency"))
              THEN t2 - Field(metadata, "processingLatency").num ELSE t2
    IN  IF st.isCalibrated THEN t3 ELSE t0

\* A second `if` in place of the `else if` of the half-frame fallback.
HalfFrameAlways(st, metadata) == st.frameDuration > 0

\* else if (calibrationStats.frameDuration > 0), reached only when the
\* cameraLatency branch was not taken.
HalfFrameFallback(st, metadata) ==
    /\ ~Present(Field(metadata, "cameraLatency"))
    /\ st.frameDuration > 0

\* unifiedTime as triggerGate computes it.
UnifiedTime(now, off, st, source, metadata) ==
    LET cameraLatency == Field(metadata, "cameraLatency")
        processingLatency == Field(metadata, "processingLatency")
        t0 == now + off
    IN  IF st.isCalibrated
        THEN LET t1 == t0 - st.systemLag
                 t2 == IF Present(cameraLatency) THEN t1 - cameraLatency.num
                       ELSE t1
                 t3 == IF HalfFrameFallback(st, metadata)
                       THEN t2 - st.frameDuration \div 2 ELSE t2
                 t4 == IF Truthy(processingLatency)
                       THEN t3 - processingLatency.num ELSE t3
             IN  IF source = "motion" THEN t4 ELSE t1
        ELSE IF source = "motion"
        THEN LET t1 == IF Present(cameraLatency) THEN t0 - cameraLatency.num
                       ELSE t0
                 t2 == IF Truthy(processingLatency)
                       THEN t1 - processingLatency.num ELSE t1
             IN  t2
        ELSE t0

\* Readings of performance.now() (ms) at a triggerGate call.
GateNowMs == { 500, 2600 }

Sources == { "manual", "motion" }

\* The metadata argument: omitted, or an object whose fields may be missing.
Metadatas ==
    { Undefined } \cup
    { [ type |-> "object", processingLatency |-> pl, cameraLatency |-> cl ] :
        pl \in { Undefined, Num(0), Num(Ms(3)) },
        cl \in { Undefined, Null, Num(0), Num(Ms(12)) } }

\* A triggerGate that folds the system lag into the stored offset.
TriggerGateInPlace(source, metadata, nowMs) ==
    /\ gateCalls < MaxEvents
    /\ gateCalls' = gateCalls + 1
    /\ IF ~isConnected
       THEN UNCHANGED << channel, lastEval, offset >>
       ELSE LET newOffset == offset - stats.systemLag
                unifiedTime == UnifiedTime(Ms(nowMs), newOffset,
                                 [ stats EXCEPT !.systemLag = 0 ], source, metadata)
            IN  /\ offset' = newOffset
                /\ channel' = Append(channel, [ timestamp |-> unifiedTime,
                                                source |-> source ])
                /\ lastEval' = << [ now |-> Ms(nowMs), offset |-> offset,
                                    stats |-> stats, source |-> source,
                                    metadata |-> metadata,
                                    timestamp |-> unifiedTime ] >>
    /\ UNCHANGED << isConnected, stats, syncVars, peerVars, recentEvents,
                    logVars >>

\* triggerGate(source, metadata) at performance.now() = nowMs: nothing when
\* not connected, else the compensated timestamp is published.
TriggerGate(source, metadata, nowMs) ==
    /\ gateCalls < MaxEvents
    /\ gateCalls' = gateCalls + 1
    /\ IF ~isConnected
       THEN UNCHANGED << channel, lastEval >>
       ELSE LET unifiedTime == UnifiedTime(Ms(nowMs), offset, stats, source,
                                           metadata)
            IN  /\ channel' = Append(channel, [ timestamp |-> unifiedTime,
                                                source |-> source ])
                /\ lastEval' = << [ now |-> Ms(nowMs), offset |-> offset,
                                    stats |-> stats, source |-> source,
                                    metadata |-> metadata,
                                    timestamp |-> unifiedTime ] >>
    /\ UNCHANGED << isConnected, offset, stats, syncVars, peerVars, recentEvents,
                    logVars >>

\* A subscriber that shifts a received timestamp by its own clock offset.
OnGateTriggerLocalised(prev, data) ==
    << [ data EXCEPT !.timestamp = @ + offset ] >> \o prev

\* setRecentEvents((prev) => [message.data, ...prev])
OnGateTrigger(prev, data) == << data >> \o prev

\* channel.subscribe('gate-trigger', ...) on a message this device published:
\* the event is prepended to the log.
GateTriggerReceived ==
    /\ channel # << >>
    /\ recentEvents' = OnGateTrigger(recentEvents, Head(channel))
    /\ channel' = Tail(channel)
    /\ lastConfig' = << >>
    /\ UNCHANGED << isConnected, offset, stats, syncVars, peerVars, gateCalls, lastEval,
                    gateConfig, distanceConfig, motionVars, frameVars >>

\* ----------------------------------------------------------- race event log
\* Longest event log a behaviour may build.
MaxLog == 7

\* gate-trigger events the devices on the channel publish: six manual events
\* with distinct timestamps, and one motion event at the timestamp of another.
EventPool ==
    { [ timestamp |-> Ms(t), source |-> "manual" ] :
        t \in { 1000, 2000, 2900, 3900, 5000, 6000 } }
    \cup { [ timestamp |-> Ms(2000), source |-> "motion" ] }

\* The gate counts the configuration buttons offer.
GateCounts == { 2, 3, 4 }

\* Distances (m) a device may save: every gate set, or the first left at 0.
DistanceConfigs == { << 10, 20, 30 >>, << 0, 20, 30 >> }

InLog(log, data) == \E i \in 1..Len(log) : log[i] = data

\* A gate-trigger message of some device arrives:
\* setRecentEvents((prev) => [message.data, ...prev]).
GateTriggerMessage(data) ==
    /\ Len(recentEvents) < MaxLog
    /\ ~InLog(recentEvents, data)
    /\ recentEvents' = OnGateTrigger(recentEvents, data)
    /\ lastConfig' = << >>
    /\ UNCHANGED << isConnected, offset, stats, syncVars, peerVars, channel, gateCalls,
                    lastEval, gateConfig, distanceConfig, motionVars, frameVars >>

\* A clear-events handler that also forgets the saved distances.
ClearEventsAndDistances ==
    /\ recentEvents' = << >>
    /\ distanceConfig' = << >>
    /\ lastConfig' = << >>
    /\ UNCHANGED << isConnected, offset, stats, syncVars, peerVars, channel,
                    gateCalls, lastEval, gateConfig, motionVars, frameVars >>

\* channel.subscribe('clear-events', ...): setRecentEvents([]).
ClearEventsMessage ==
    /\ recentEvents' = << >>
    /\ lastConfig' = << >>
    /\ UNCHANGED << isConnected, offset, stats, syncVars, peerVars, channel, gateCalls,
                    lastEval, gateConfig, distanceConfig, motionVars, frameVars >>

\* A config-change handler that keeps the log when the count is unchanged.
EventsKeptOnSameCount(prev, current, count) ==
    IF count = current THEN prev ELSE << >>

\* setRecentEvents([]) of the config-change subscription.
EventsAfterConfigChange(prev, current, count) == << >>

\* channel.subscribe('config-change', ...): setGateConfigState(count) and
\* setRecentEvents([]), rendered together.
ConfigChangeMessage(count) ==
    /\ gateConfig' = count
    /\ recentEvents' = EventsAfterConfigChange(recentEvents, gateConfig, count)
    /\ lastConfig' = << [ count |-> count, previous |-> gateConfig,
                          held |-> Len(recentEvents) ] >>
    /\ UNCHANGED << isConnected, offset, stats, syncVars, peerVars, channel, gateCalls,
                    lastEval, distanceConfig, motionVars, frameVars >>

\* channel.subscribe('distance-change', ...): setDistanceConfigState(distances).
DistanceChangeMessage(distances) ==
    /\ distanceConfig' = distances
    /\ lastConfig' = << >>
    /\ UNCHANGED << isConnected, offset, stats, syncVars, peerVars, channel,
                    recentEvents, gateCalls, lastEval, gateConfig, motionVars, frameVars >>

\* ------------------------------------------------- race windows (SprintList)
\* Array.prototype.sort((a, b) => a.timestamp - b.timestamp): stable, ascending.
RECURSIVE InsertByTimestamp(_, _)
InsertByTimestamp(sorted, x) ==
    IF sorted = << >> THEN << x >>
    ELSE IF x.timestamp - Head(sorted).timestamp < 0 THEN << x >> \o sorted
    ELSE << Head(sorted) >> \o InsertByTimestamp(Tail(sorted), x)

\* Windows cut from the log in the order it is stored.
SortByArrival(s) == s

RECURSIVE SortByTimestamp(_)
SortByTimestamp(s) ==
    IF s = << >> THEN << >>
    ELSE InsertByTimestamp(SortByTimestamp(SubSeq(s, 1, Len(s) - 1)), s[Len(s)])

\* A chunk closed one event late.
ChunkOverfull(currentChunk, g) == Len(currentChunk) = g + 1

\* if (currentChunk.length === gateConfig)
ChunkFull(currentChunk, g) == Len(currentChunk) = g

\* The for loop over sortedEvents: << chunks, currentChunk >> at its end.
RECURSIVE ChunkLoop(_, _, _, _)
ChunkLoop(rest, chunks, currentChunk, g) ==
    IF rest = << >> THEN << chunks, currentChunk >>
    ELSE LET pushed == Append(currentChunk, Head(rest))
         IN  IF ChunkFull(pushed, g)
             THEN ChunkLoop(Tail(rest),
                            Append(chunks, [ events |-> pushed,
                                             complete |-> TRUE ]),
                            << >>, g)
             ELSE ChunkLoop(Tail(rest), chunks, pushed, g)

Reverse(s) == [ i \in 1..Len(s) |-> s[Len(s) + 1 - i] ]

\* The chunk list left in the order it was cut.
OldestFirst(chunks) == chunks

\* chunks.reverse(): "Show newest first".
NewestFirst(chunks) == Reverse(chunks)

\* The sprints of the useMemo of SprintList.
Sprints(events, g) ==
    LET sortedEvents == SortByTimestamp(events)
        loop == ChunkLoop(sortedEvents, << >>, << >>, g)
        chunks == IF Len(loop[2]) > 0
                  THEN Append(loop[1], [ events |-> loop[2],
                                         complete |-> FALSE ])
                  ELSE loop[1]
    IN  NewestFirst(chunks)

\* index = sprints.length - 1 - i, shown as "Sprint {index + 1}": the
\* position k in the list that carries number n.
SprintNumbered(sprints, n) == sprints[Len(sprints) + 1 - n]

\* ------------------------------------------- segment figures (SprintCard)
\* JavaScript numbers that are not integers are kept as fractions in lowest
\* terms with a positive denominator.
RECURSIVE Gcd(_, _)
Gcd(a, b) == IF b = 0 THEN a ELSE Gcd(b, a % b)

Rat(n, d) ==
    LET g == Gcd(Abs(n), Abs(d))
        sgn == IF d < 0 THEN -1 ELSE 1
    IN  [ num |-> sgn * (n \div g), den |-> sgn * (d \div g) ]

RatSub(a, b) == Rat(a.num * b.den - b.num * a.den, a.den * b.den)
RatDiv(a, b) == Rat(a.num * b.den, a.den * b.num)
RatAbs(a) == [ num |-> Abs(a.num), den |-> a.den ]
RatPositive(a) == a.num > 0

\* x.toFixed(2), in hundredths.
ToFixed2(a) ==
    (IF a.num < 0 THEN -1 ELSE 1) * RoundDiv(100 * Abs(a.num), a.den)

\* A missing distance read as a number: null and undefined give 0.
ToNumber(v) == IF v.type = "number" THEN v.num ELSE 0

\* getDistance(idx): 0 for the start line, distanceConfig[idx - 1] when it is
\* there and not 0, else null.
getDistance(distances, idx) ==
    IF idx = 0 THEN Num(0)
    ELSE IF idx >= 1 /\ idx <= Len(distances) /\ distances[idx] # 0
    THEN Num(distances[idx])
    ELSE Null

\* (later.timestamp - earlier.timestamp) / 1000, in seconds.
SecondsBetween(earlier, later) ==
    Rat(later.timestamp - earlier.timestamp, 1000 * Scale)

\* An acceleration that takes every segment as starting from rest.
PrevVelocityAtRest(events, distances, i) == Rat(0, 1)

\* prevVelocity: 0 for the first segment, else the velocity of the segment
\* before when its time delta is positive. Event i of the code (from 0) is
\* events[i + 1] here.
PrevVelocity(events, distances, i) ==
    IF i > 1
    THEN LET prevTimeDelta == SecondsBetween(events[i - 1], events[i])
             prevDistDelta == ToNumber(getDistance(distances, i - 1))
                                - ToNumber(getDistance(distances, i - 2))
         IN  IF RatPositive(prevTimeDelta)
             THEN RatDiv(Rat(prevDistDelta, 1), prevTimeDelta)
             ELSE Rat(0, 1)
    ELSE Rat(0, 1)

\* velocity = distDelta / timeDelta
SegmentVelocity(distDelta, timeDelta) == RatDiv(Rat(distDelta, 1), timeDelta)

\* The figures of row i (from 0) of a sprint card: velocity and acceleration
\* as computed, and the two display strings (<< >> for null, shown as '-').
SegmentFigures(events, distances, i) ==
    LET isStart == i = 0
        currentDist == getDistance(distances, i)
        prevDist == getDistance(distances, i - 1)
        none == [ velocity |-> Rat(0, 1), acceleration |-> Rat(0, 1),
                  velocityDisplay |-> << >>, accelDisplay |-> << >>,
                  accelArrow |-> "" ]
    IN  IF ~isStart /\ currentDist.type # "null" /\ prevDist.type # "null"
        THEN LET timeDelta == SecondsBetween(events[i], events[i + 1])
                 distDelta == currentDist.num - prevDist.num
             IN  IF RatPositive(timeDelta)
                 THEN LET velocity == SegmentVelocity(distDelta, timeDelta)
                          prevVelocity == PrevVelocity(events, distances, i)
                          acceleration ==
                              RatDiv(RatSub(velocity, prevVelocity), timeDelta)
                      IN  [ velocity |-> velocity,
                            acceleration |-> acceleration,
                            velocityDisplay |-> << ToFixed2(velocity) >>,
                            accelDisplay |-> << ToFixed2(RatAbs(acceleration)) >>,
                            accelArrow |->
                                IF 10 * acceleration.num > acceleration.den
                                THEN "up"
                                ELSE IF 10 * acceleration.num < -acceleration.den
                                THEN "down" ELSE "" ]
                 ELSE none
        ELSE none

\* The rows of one sprint card, row i of the code at position i + 1.
SprintCard(sprint, distances) ==
    [ k \in 1..Len(sprint.events) |->
        SegmentFigures(sprint.events, distances, k - 1) ]

\* ------------------------------------------------------------- motion gate
\* Readings of performance.now() (ms) when a frame delta is delivered.
MotionNowMs == { 1500, 2100, 2133, 3600, 4100, 6200 }

\* Average pixel differences a frame may show, and positions of the slider.
Deltas == { 10, 25, 40 }
Sensitivities == { 25, 30 }

\* What useCanvasMotion passes along with a delta.
MotionMetadatas ==
    { [ type |-> "object", processingLatency |-> Num(Ms(3)),
        cameraLatency |-> cl ] : cl \in { Null, Num(Ms(12)) } }

COOLDOWN_MS == 2000

\* if (now - lastTrigger > 2000)
CooldownOver(now, last) == now - last > Ms(COOLDOWN_MS)

\* The ARMED / DISARMED button: setIsArmed(!isArmed), rendered on the click.
ToggleArmed ==
    /\ isArmed' = ~isArmed
    /\ UNCHANGED << isConnected, offset, stats, syncVars, peerVars, channel,
                    recentEvents, gateCalls, lastEval, logVars, sensitivity,
                    lastTrigger, pendingTrigger, lastMotion, lastAccepted,
                    frameVars >>

\* The slider: setSensitivity(value).
SetSensitivity(value) ==
    /\ value # sensitivity
    /\ sensitivity' = value
    /\ UNCHANGED << isConnected, offset, stats, syncVars, peerVars, channel,
                    recentEvents, gateCalls, lastEval, logVars, isArmed,
                    lastTrigger, pendingTrigger, lastMotion, lastAccepted,
                    frameVars >>

\* Time of the last frame delivered, 0 before the first.
LastFrameTime == IF lastMotion = << >> THEN 0 ELSE lastMotion[1].now

\* A frame is processed while the detector runs (useCanvasMotion registers the
\* frame callback only while armed) and handleMotion(delta, metadata) is
\* called at performance.now() = nowMs: an accepted delta calls
\* setLastTrigger(now) and triggerGate('motion', metadata).
HandleMotion(delta, metadata, nowMs) ==
    LET now == Ms(nowMs)
        accepted == isArmed /\ delta > sensitivity
                      /\ CooldownOver(now, lastTrigger)
    IN  /\ isArmed
        /\ now > LastFrameTime
        /\ lastMotion' = << [ now |-> now, delta |-> delta,
                              sensitivity |-> sensitivity,
                              since |-> lastAccepted,
                              accepted |-> accepted ] >>
        /\ IF accepted
           THEN /\ pendingTrigger' = << now >>
                /\ lastAccepted' = << now >>
                /\ TriggerGate("motion", metadata, nowMs)
           ELSE UNCHANGED << pendingTrigger, lastAccepted, isConnected,
                             offset, stats, syncVars, peerVars, channel, recentEvents,
                             gateCalls, lastEval, logVars >>
        /\ UNCHANGED << isArmed, sensitivity, lastTrigger >>

\* The render that follows setLastTrigger: handleMotion is rebuilt with the
\* new lastTrigger and the frame callback is registered again.
MotionRender ==
    /\ pendingTrigger # << >>
    /\ lastTrigger' = pendingTrigger[1]
    /\ pendingTrigger' = << >>
    /\ UNCHANGED << isConnected, offset, stats, syncVars, peerVars, channel,
                    recentEvents, gateCalls, lastEval, logVars, isArmed,
                    sensitivity, lastMotion, lastAccepted,
                    frameVars >>

\* ----------------------------------------------------------- peer transport
\* The peer that obtained HOST_PEER_ID, and the peers that found it taken.
Host == "host"
Clients == { "c1", "c2" }
Peers == { Host } \cup Clients

\* publish() calls, and getServerTime() calls of the application, that a
\* behaviour may contain.
MaxPublish == 2
MaxAppRequests == 1

\* performance.now() of a peer (ms since its page was loaded) and its
\* Date.now(), both in ticks, at true time t (ms).  The pages were loaded at
\* different times and the clients' wall clocks are off by a little.
PerfSkewMs(p) == CASE p = Host -> 0 [] p = "c1" -> 40 [] OTHER -> 70
DateSkewMs(p) == CASE p = Host -> 0 [] p = "c1" -> 7 [] OTHER -> -3
PeerPerf(p, t) == Ms(t + PerfSkewMs(p))
PeerDate(p, t) == Ms(t + PerfSkewMs(p) + DateMinusPerf + DateSkewMs(p))

\* now(): performance.now() + this.offset
PeerNow(p) == PeerPerf(p, peerClock) + peerOffset[p]

\* A timer of half the length.
REQUEST_TIMEOUT_SHORT == 2000 \div 2

\* setTimeout(..., 2000) of getServerTime
REQUEST_TIMEOUT_MS == 2000

\* setTimeout(r, 100) of performStartupSync
SYNC_SLEEP_MS == 100

\* performStartupSync before it is called.
IdleLoop ==
    [ pc |-> "idle", i |-> 0, totalOffset |-> 0, start |-> 0, req |-> 0,
      wake |-> 0 ]

\* Everything outside the peer transport.
nonPeerVars ==
    << isConnected, offset, stats, syncVars, channel, recentEvents, gateCalls,
       lastEval, logVars, motionVars, frameVars >>

\* hostConnection?.open, and conn.open for a connection the host holds.
HostConnectionOpen(c) == Host \in connections[c]

\* Time (ms) a message may take to the host and from it; a connection keeps
\* the two it was dialled with.  One network takes no time, one is lopsided,
\* and two are so slow on the way back that the answer to a request comes
\* just at its deadline, or after it.
NoLatency == << 0, 0 >>
ConnectionLatenciesMs ==
    { NoLatency, << 30, 10 >>, << 0, 2000 >>, << 30, 2000 >> }

\* conn.send(msg) on an ordered, reliable data channel: the message can be
\* handled at the other end after lat ms, and not before those sent before
\* it.
Send(queue, msg, lat) ==
    LET ready == IF queue = << >> THEN peerClock + lat
                 ELSE Max2(peerClock + lat, queue[Len(queue)].ready)
    IN  Append(queue, [ msg |-> msg, ready |-> ready ])

\* The body of getServerTime() on client c with the connection open or not:
\* the request enters pendingRequests, TIME_REQ is sent or the promise is
\* resolved with Date.now() at once, and the 2000 ms timer is set.  conns is
\* the connection table the call finds.  timeReqs records the call: when it
\* was made, whether its timer is set, what the host stamped on the answer,
\* when the answer came in, and what the promise was resolved with.
GetServerTimeBody(c, conns, purpose) ==
    LET r == Len(timeReqs) + 1
        open == Host \in conns[c]
    IN  /\ timeReqs' =
             Append(timeReqs,
                    [ by |-> c, purpose |-> purpose, sentAt |-> peerClock,
                      timer |-> TRUE, stamp |-> << >>, arrived |-> << >>,
                      resolved |-> IF open THEN << >>
                                   ELSE << [ from |-> "local",
                                             value |-> PeerDate(c, peerClock),
                                             at |-> peerClock ] >> ])
        /\ pendingRequests' = [ pendingRequests EXCEPT ![c] = @ \cup { r } ]
        /\ wire' = IF open
                   THEN [ wire EXCEPT ![c].up =
                            Send(@, [ type |-> "TIME_REQ", reqId |-> r ],
                                 wire[c].lat[1]) ]
                   ELSE wire

\* One pass of the loop of performStartupSync up to its await: start =
\* performance.now() and getServerTime() is called.  A call that finds the
\* connection closed is resolved at once and the loop goes on to its sleep.
SyncIteration(c, conns, loop) ==
    LET r == Len(timeReqs) + 1
        open == Host \in conns[c]
        start == PeerPerf(c, peerClock)
        localOffset == PeerDate(c, peerClock) - start
    IN  /\ GetServerTimeBody(c, conns, "sync")
        /\ syncLoop' =
             [ syncLoop EXCEPT ![c] =
                 IF open
                 THEN [ loop EXCEPT !.pc = "awaiting", !.start = start,
                                    !.req = r ]
                 ELSE [ loop EXCEPT !.pc = "sleeping", !.start = start,
                                    !.req = r, !.i = @ + 1,
                                    !.totalOffset = @ + localOffset,
                                    !.wake = peerClock + SYNC_SLEEP_MS ] ]

\* The loop body after the await, for the value the promise resolved with:
\* latency = (end - start) / 2, currentOffset = serverTime + latency - end,
\* and the 100 ms sleep is started.
SyncContinue(c, r, serverTime) ==
    LET loop == syncLoop[c]
        end == PeerPerf(c, peerClock)
        latency == (end - loop.start) \div 2
        currentOffset == (serverTime + latency) - end
    IN  IF loop.pc = "awaiting" /\ loop.req = r
        THEN [ syncLoop EXCEPT ![c] =
                 [ loop EXCEPT !.pc = "sleeping", !.i = @ + 1,
                               !.totalOffset = @ + currentOffset,
                               !.wake = peerClock + SYNC_SLEEP_MS ] ]
        ELSE syncLoop

\* connect() of a peer that found the host id taken: initPeer() with a random
\* id and connectToHost(), which dials the host and attaches the handlers.
\* lat is what the network gives the connection.
ConnectToHost(c, lat) ==
    /\ wire[c].state = "none"
    /\ wire' = [ wire EXCEPT ![c].state = "live", ![c].lat = lat ]
    /\ UNCHANGED << peerClock, connections, peerOffset, pendingRequests,
                    timeReqs, syncLoop, published, onEventLog, nonPeerVars >>

\* conn.on('open') at the host: the connection joins this.connections.
OpenAtHost(c) ==
    /\ wire[c].state = "live"
    /\ c \notin connections[Host]
    /\ connections' = [ connections EXCEPT ![Host] = @ \cup { c } ]
    /\ UNCHANGED << peerClock, wire, peerOffset, pendingRequests, timeReqs,
                    syncLoop, published, onEventLog, nonPeerVars >>

\* conn.on('open') at the client: the connection joins this.connections and,
\* the peer being the host, performStartupSync() is called and runs to its
\* first await.
OpenAtClient(c) ==
    /\ wire[c].state = "live"
    /\ Host \notin connections[c]
    /\ connections' = [ connections EXCEPT ![c] = @ \cup { Host } ]
    /\ SyncIteration(c, connections', IdleLoop)
    /\ UNCHANGED << peerClock, peerOffset, published, onEventLog,
                    nonPeerVars >>

\* conn.on('close') on both ends: the connection leaves this.connections,
\* and what was in flight on it is lost.
CloseConnection(c) ==
    /\ wire[c].state = "live"
    /\ wire' = [ wire EXCEPT ![c] = [ state |-> "closed", up |-> << >>,
                                      down |-> << >>, lat |-> NoLatency ] ]
    /\ connections' = [ connections EXCEPT ![Host] = @ \ { c }, ![c] = {} ]
    /\ UNCHANGED << peerClock, peerOffset, pendingRequests, timeReqs,
                    syncLoop, published, onEventLog, nonPeerVars >>

\* A broadcast that leaves out the connection the message came in on.
BroadcastToOthers(w, msg, from) ==
    [ c \in Clients |->
        IF c \in connections[Host] /\ c # from
        THEN [ w[c] EXCEPT !.down = Send(@, msg, w[c].lat[2]) ]
        ELSE w[c] ]

\* broadcast(msg) at the host: conn.send(msg) on every open connection.
Broadcast(w, msg, from) ==
    [ c \in Clients |->
        IF c \in connections[Host]
        THEN [ w[c] EXCEPT !.down = Send(@, msg, w[c].lat[2]) ]
        ELSE w[c] ]

\* publish(topic, data) on peer p (the application publishes objects under
\* named topics): the host calls its own onEvent and broadcasts; a client
\* sends the event to the host if its connection is open, and drops it if
\* not.  published records the call: who made it, whether the event left
\* the peer, the clients that saw their connection open, and, once the host
\* has broadcast it, the connections the host held then.
Publish(p) ==
    LET id == Len(published) + 1
        msg == [ type |-> "EVENT", id |-> id ]
    IN  /\ Len(published) < MaxPublish
        /\ published' =
             Append(published,
                    [ by |-> p,
                      sent |-> p = Host \/ HostConnectionOpen(p),
                      open |-> { c \in Clients : HostConnectionOpen(c) },
                      reach |-> IF p = Host THEN << connections[Host] >>
                                ELSE << >> ])
        /\ IF p = Host
           THEN /\ onEventLog' = [ onEventLog EXCEPT ![Host] = Append(@, id) ]
                /\ wire' = Broadcast(wire, msg, Host)
           ELSE /\ onEventLog' = onEventLog
                /\ wire' = IF HostConnectionOpen(p)
                           THEN [ wire EXCEPT ![p].up =
                                    Send(@, msg, wire[p].lat[1]) ]
                           ELSE wire
        /\ UNCHANGED << peerClock, connections, peerOffset, pendingRequests,
                        timeReqs, syncLoop, nonPeerVars >>

\* conn.on('data') at the host for the next message of client c:
\* handleMessage.  An EVENT goes to onEvent and is broadcast to every
\* connection, the sender's included; a TIME_REQ is answered on the same
\* connection with Date.now(); a TIME_RESP finds no pending request.
HostReceives(c) ==
    /\ wire[c].state = "live"
    /\ c \in connections[Host]
    /\ wire[c].up # << >>
    /\ Head(wire[c].up).ready <= peerClock
    /\ LET msg == Head(wire[c].up).msg
           taken == [ wire EXCEPT ![c].up = Tail(@) ]
       IN  CASE msg.type = "EVENT" ->
                  /\ onEventLog' =
                       [ onEventLog EXCEPT ![Host] = Append(@, msg.id) ]
                  /\ wire' = Broadcast(taken, msg, c)
                  /\ published' = [ published EXCEPT ![msg.id].reach =
                                      << connections[Host] >> ]
                  /\ UNCHANGED timeReqs
             [] msg.type = "TIME_REQ" ->
                  /\ wire' =
                       [ taken EXCEPT ![c].down =
                           Send(@, [ type |-> "TIME_RESP",
                                     reqId |-> msg.reqId,
                                     serverTime |->
                                       PeerDate(Host, peerClock) ],
                                wire[c].lat[2]) ]
                  /\ timeReqs' =
                       [ timeReqs EXCEPT ![msg.reqId].stamp =
                           << PeerDate(Host, peerClock) >> ]
                  /\ UNCHANGED << onEventLog, published >>
             [] OTHER ->
                  /\ wire' = taken
                  /\ UNCHANGED << onEventLog, timeReqs, published >>
    /\ UNCHANGED << peerClock, connections, peerOffset, pendingRequests,
                    syncLoop, nonPeerVars >>

\* conn.on('data') at client c for the next message of the host:
\* handleMessage.  An EVENT goes to onEvent; a TIME_RESP whose reqId is
\* pending resolves that promise with serverTime and leaves the table, and
\* the loop of performStartupSync that awaited it goes on; any other
\* TIME_RESP, and a TIME_REQ, do nothing.
ClientReceives(c) ==
    /\ wire[c].state = "live"
    /\ HostConnectionOpen(c)
    /\ wire[c].down # << >>
    /\ Head(wire[c].down).ready <= peerClock
    /\ LET msg == Head(wire[c].down).msg
       IN  /\ wire' = [ wire EXCEPT ![c].down = Tail(@) ]
           /\ CASE msg.type = "EVENT" ->
                     /\ onEventLog' =
                          [ onEventLog EXCEPT ![c] = Append(@, msg.id) ]
                     /\ UNCHANGED << pendingRequests, timeReqs, syncLoop >>
                [] msg.type = "TIME_RESP"
                     /\ msg.reqId \in pendingRequests[c] ->
                     /\ pendingRequests' =
                          [ pendingRequests EXCEPT ![c] = @ \ { msg.reqId } ]
                     /\ timeReqs' =
                          [ timeReqs EXCEPT
                              ![msg.reqId].arrived = << peerClock >>,
                              ![msg.reqId].resolved =
                                IF @ = << >>
                                THEN << [ from |-> "host",
                                          value |-> msg.serverTime,
                                          at |-> peerClock ] >>
                                ELSE @ ]
                     /\ syncLoop' = SyncContinue(c, msg.reqId, msg.serverTime)
                     /\ UNCHANGED onEventLog
                [] msg.type = "TIME_RESP"
                     /\ msg.reqId \notin pendingRequests[c] ->
                     /\ timeReqs' = [ timeReqs EXCEPT ![msg.reqId].arrived =
                                        << peerClock >> ]
                     /\ UNCHANGED << onEventLog, pendingRequests, syncLoop >>
                [] OTHER ->
                     UNCHANGED << onEventLog, pendingRequests, timeReqs,
                                  syncLoop >>
    /\ UNCHANGED << peerClock, connections, peerOffset, published,
                    nonPeerVars >>

\* getServerTime() called by the application on client c.
GetServerTime(c) ==
    /\ wire[c].state # "none"
    /\ Cardinality({ r \in 1..Len(timeReqs) : timeReqs[r].purpose = "app" })
         < MaxAppRequests
    /\ GetServerTimeBody(c, connections, "app")
    /\ UNCHANGED << peerClock, connections, peerOffset, syncLoop, published,
                    onEventLog, nonPeerVars >>

\* The 2000 ms timer of request r fires: a request still in the table leaves
\* it and its promise is resolved with Date.now(); resolving a promise that
\* is already resolved does nothing.
TimeoutFires(r) ==
    /\ r \in 1..Len(timeReqs)
    /\ timeReqs[r].timer
    /\ timeReqs[r].sentAt + REQUEST_TIMEOUT_MS <= peerClock
    /\ LET c == timeReqs[r].by
           fresh == r \in pendingRequests[c] /\ timeReqs[r].resolved = << >>
           local == PeerDate(c, peerClock)
       IN  /\ pendingRequests' =
                [ pendingRequests EXCEPT ![c] = @ \ { r } ]
           /\ timeReqs' =
                [ timeReqs EXCEPT
                    ![r].timer = FALSE,
                    ![r].resolved =
                      IF fresh
                      THEN << [ from |-> "local", value |-> local,
                                at |-> peerClock ] >>
                      ELSE @ ]
           /\ syncLoop' = IF fresh THEN SyncContinue(c, r, local)
                          ELSE syncLoop
    /\ UNCHANGED << peerClock, connections, wire, peerOffset, published,
                    onEventLog, nonPeerVars >>

\* The 100 ms sleep of performStartupSync is over: the next pass of the loop
\* starts, or after burstCount passes this.offset = totalOffset / burstCount.
SyncWakes(c) ==
    /\ syncLoop[c].pc = "sleeping"
    /\ syncLoop[c].wake <= peerClock
    /\ IF syncLoop[c].i < burstCount
       THEN /\ SyncIteration(c, connections, syncLoop[c])
            /\ UNCHANGED peerOffset
       ELSE /\ syncLoop' = [ syncLoop EXCEPT ![c].pc = "done" ]
            /\ peerOffset' =
                 [ peerOffset EXCEPT
                     ![c] = syncLoop[c].totalOffset \div burstCount ]
            /\ UNCHANGED << pendingRequests, timeReqs, wire >>
    /\ UNCHANGED << peerClock, connections, published, onEventLog,
                    nonPeerVars >>

\* Times (ms) at which something is due: the timers that are set, and the
\* messages in flight on a connection whose receiving end is open.
PeerDueTimes ==
    { timeReqs[r].sentAt + REQUEST_TIMEOUT_MS :
        r \in { q \in 1..Len(timeReqs) : timeReqs[q].timer } }
    \cup { syncLoop[c].wake :
             c \in { d \in Clients : syncLoop[d].pc = "sleeping" } }
    \cup { Head(wire[c].up).ready :
             c \in { d \in Clients : /\ d \in connections[Host]
                                     /\ wire[d].up # << >> } }
    \cup { Head(wire[c].down).ready :
             c \in { d \in Clients : /\ HostConnectionOpen(d)
                                     /\ wire[d].down # << >> } }

\* Time passes until the next thing is due: timers fire, and messages are
\* handled, when they are due.
PeerTick ==
    /\ PeerDueTimes # {}
    /\ \A due \in PeerDueTimes : due > peerClock
    /\ peerClock' = CHOOSE due \in PeerDueTimes :
                      \A other \in PeerDueTimes : due <= other
    /\ UNCHANGED << connections, wire, peerOffset, pendingRequests, timeReqs,
                    syncLoop, published, onEventLog, nonPeerVars >>

\* ------------------------------------------------------ frame differencing
stripWidth == 20
stripPadding == 40
totalWidth == stripWidth + stripPadding * 2

\* Size of a canvas element as document.createElement('canvas') returns it.
DefaultCanvasSize == << 300, 150 >>

\* What video.videoWidth and video.videoHeight may read: no stream yet, and
\* three resolutions, two of which share their height.
VideoSizes == { << 0, 0 >>, << 640, 480 >>, << 1280, 480 >>, << 1280, 720 >> }

\* Brightness of the tripwire strip in the frames the camera delivers; a
\* frame has one green level across the strip.
GreenLevels == { 0, 30, 60 }

\* ctx.getImageData(stripPadding, 0, stripWidth, height).data: RGBA bytes of
\* the strip.
StripData(height, green) ==
    [ length |-> stripWidth * 4 * height, green |-> green ]

\* The pixels the two loops visit: every 4th row (i += bytesPerRow * rowSkip)
\* and every 4th pixel of it (j += 16).
SampledPixels(data) ==
    LET bytesPerRow == stripWidth * 4
        rowSkip == 4
        rows == (data.length + bytesPerRow * rowSkip - 1)
                  \div (bytesPerRow * rowSkip)
        perRow == (bytesPerRow + 15) \div 16
    IN  rows * perRow

\* averageDelta = totalDelta / pixelCount over the sampled green bytes.
AverageDelta(data, prevData) ==
    LET pixelCount == SampledPixels(data)
        totalDelta == pixelCount * Abs(data.green - prevData.green)
    IN  totalDelta \div pixelCount

\* The source changes its resolution (stream starts, camera or orientation
\* changes).
VideoResize(size) ==
    /\ size # videoSize
    /\ videoSize' = size
    /\ UNCHANGED << isConnected, offset, stats, syncVars, peerVars, channel,
                    recentEvents, gateCalls, lastEval, logVars, motionVars,
                    canvasSize, previousFrame, lastFrame >>

\* Time of the last frame callback, 0 before the first.
LastCallbackTime == IF lastFrame = << >> THEN 0 ELSE lastFrame[1].now

\* if (canvasRef.current.width !== totalWidth ||
\*     canvasRef.current.height !== height)
CanvasNeedsResize(height) ==
    canvasSize[1] # totalWidth \/ canvasSize[2] # height

\* processFrame, the requestVideoFrameCallback callback, which is registered
\* while the gate is armed: a frame without dimensions is skipped; the canvas
\* is resized when its size differs and the stored frame dropped with it; a
\* stored previous frame gives a delta that is passed to onMotion
\* (handleMotion); the strip is stored for the next comparison.
ProcessFrame(green, metadata, nowMs) ==
    LET width == videoSize[1]
        height == videoSize[2]
        resized == CanvasNeedsResize(height)
        prev == IF resized THEN << >> ELSE previousFrame
        data == StripData(height, green)
        storedOf == IF lastFrame = << >> THEN << >> ELSE lastFrame[1].storedOf
    IN  /\ isArmed
        /\ nowMs > LastCallbackTime
        /\ IF width = 0 \/ height = 0
           THEN /\ lastFrame' = << [ now |-> nowMs, size |-> videoSize,
                                     emitted |-> << >>,
                                     storedOf |-> storedOf ] >>
                /\ UNCHANGED << canvasSize, previousFrame, isConnected, offset,
                                stats, syncVars, peerVars, channel,
                                recentEvents, gateCalls, lastEval, logVars,
                                motionVars >>
           ELSE /\ canvasSize' = IF resized THEN << totalWidth, height >>
                                 ELSE canvasSize
                /\ previousFrame' = << data >>
                /\ lastFrame' =
                     << [ now |-> nowMs, size |-> videoSize,
                          emitted |-> IF prev = << >> THEN << >>
                                      ELSE << AverageDelta(data, prev[1]) >>,
                          storedOf |-> << videoSize >> ] >>
                /\ IF prev = << >>
                   THEN UNCHANGED << isConnected, offset, stats, syncVars,
                                     peerVars, channel, recentEvents,
                                     gateCalls, lastEval, logVars,
                                     motionVars >>
                   ELSE HandleMotion(AverageDelta(data, prev[1]), metadata,
                                     nowMs)
        /\ UNCHANGED videoSize

\* ------------------------------------------------------------ specification
\* The canvas is new, nothing is stored and the video has no stream.
FrameInit ==
    /\ videoSize = << 0, 0 >>
    /\ canvasSize = DefaultCanvasSize
    /\ previousFrame = << >>
    /\ lastFrame = << >>

\* One peer holds the host id and no client has dialled yet.
PeerInit ==
    /\ peerClock = 0
    /\ connections = [ p \in Peers |-> {} ]
    /\ wire = [ c \in Clients |-> [ state |-> "none", up |-> << >>,
                                    down |-> << >>, lat |-> NoLatency ] ]
    /\ peerOffset = [ p \in Peers |-> 0 ]
    /\ pendingRequests = [ p \in Peers |-> {} ]
    /\ timeReqs = << >>
    /\ syncLoop = [ c \in Clients |-> IdleLoop ]
    /\ published = << >>
    /\ onEventLog = [ p \in Peers |-> << >> ]

\* The provider is mounted; where the device is already connected the
\* connection was made at time 0 and the initial delay is still pending.
LifeInit(connected) ==
    /\ mounted = TRUE
    /\ clock = 0
    /\ connectedAt = IF connected THEN << 0 >> ELSE << >>
    /\ initialDelay = IF connected THEN << SYNC_INTERVAL_MS >> ELSE << >>
    /\ syncInterval = << >>

Init ==
    /\ isConnected = FALSE
    /\ offset = 0
    /\ burstPc = "idle"
    /\ burstI = 0
    /\ totalOffset = 0
    /\ burstLog = EmptyBag
    /\ isSyncing = FALSE
    /\ cycles = << >>
    /\ fired = 0
    /\ lastSync = << >>
    /\ stats = DefaultStats
    /\ isCalibrating = FALSE
    /\ latencySeen = FALSE
    /\ channel = << >>
    /\ recentEvents = << >>
    /\ gateCalls = 0
    /\ lastEval = << >>
    /\ gateConfig = 2
    /\ distanceConfig = << >>
    /\ lastConfig = << >>
    /\ isArmed = FALSE
    /\ sensitivity = 25
    /\ lastTrigger = 0
    /\ pendingTrigger = << >>
    /\ lastMotion = << >>
    /\ lastAccepted = << >>
    /\ LifeInit(FALSE)
    /\ probeLog = << >>
    /\ calibIn = << >>
    /\ fpsWatch = << >>
    /\ FrameInit
    /\ PeerInit

Next ==
    \/ Connect
    \/ BurstProbe
    \/ BurstFail
    \/ BurstFinish
    \/ DriftTrigger /\ UNCHANGED << clock, syncInterval, probeLog >>
    \/ \E k \in 1..Len(cycles) : DriftProbe(k)
    \/ \E k \in 1..Len(cycles) : DriftProbeFail(k)
    \/ \E k \in 1..Len(cycles) : DriftFinish(k)
    \/ CalibStart
    \/ CalibPublish
    \/ CalibFail

Spec == Init /\ [][Next]_vars

\* The event path alone, started from the states the estimator and the
\* calibration can leave: not connected, or connected with the burst done and
\* the statistics at their defaults or at a published snapshot.
InitGate ==
    /\ isConnected \in BOOLEAN
    /\ stats \in IF isConnected
                 THEN { DefaultStats } \cup { r.snapshot : r \in CalibrationRuns }
                 ELSE { DefaultStats }
    /\ offset \in IF ~isConnected THEN { 0 }
                  ELSE IF stats.isCalibrated
                  THEN { stats.networkOffset, Ms(RefMinusPerf) + Ms(14) }
                  ELSE { Ms(RefMinusPerf) + Ms(14) }
    /\ burstPc = IF isConnected THEN "done" ELSE "idle"
    /\ burstI = 0
    /\ totalOffset = 0
    /\ burstLog = EmptyBag
    /\ isSyncing = FALSE
    /\ cycles = << >>
    /\ fired = 0
    /\ lastSync = << >>
    /\ isCalibrating = FALSE
    /\ latencySeen = isConnected
    /\ channel = << >>
    /\ recentEvents = << >>
    /\ gateCalls = 0
    /\ lastEval = << >>
    /\ gateConfig = 2
    /\ distanceConfig = << >>
    /\ lastConfig = << >>
    /\ isArmed = FALSE
    /\ sensitivity = 25
    /\ lastTrigger = 0
    /\ pendingTrigger = << >>
    /\ lastMotion = << >>
    /\ lastAccepted = << >>
    /\ LifeInit(isConnected)
    /\ probeLog = << >>
    /\ calibIn = << >>
    /\ fpsWatch = << >>
    /\ FrameInit
    /\ PeerInit

NextGate ==
    \/ \E source \in Sources, metadata \in Metadatas, nowMs \in GateNowMs :
         TriggerGate(source, metadata, nowMs)
           /\ UNCHANGED << motionVars, frameVars >>
    \/ GateTriggerReceived

SpecGate == InitGate /\ [][NextGate]_vars

\* The event log and the race configuration alone, on a connected device
\* whose startup burst is done, fed by the messages of the channel.
InitLog ==
    /\ isConnected = TRUE
    /\ stats = DefaultStats
    /\ offset = Ms(RefMinusPerf) + Ms(14)
    /\ burstPc = "done"
    /\ burstI = 0
    /\ totalOffset = 0
    /\ burstLog = EmptyBag
    /\ isSyncing = FALSE
    /\ cycles = << >>
    /\ fired = 0
    /\ lastSync = << >>
    /\ isCalibrating = FALSE
    /\ latencySeen = TRUE
    /\ channel = << >>
    /\ recentEvents = << >>
    /\ gateCalls = 0
    /\ lastEval = << >>
    /\ gateConfig = 2
    /\ distanceConfig = << >>
    /\ lastConfig = << >>
    /\ isArmed = FALSE
    /\ sensitivity = 25
    /\ lastTrigger = 0
    /\ pendingTrigger = << >>
    /\ lastMotion = << >>
    /\ lastAccepted = << >>
    /\ LifeInit(TRUE)
    /\ probeLog = << >>
    /\ calibIn = << >>
    /\ fpsWatch = << >>
    /\ FrameInit
    /\ PeerInit

NextLog ==
    \/ \E data \in EventPool : GateTriggerMessage(data)
    \/ ClearEventsMessage
    \/ \E count \in GateCounts : ConfigChangeMessage(count)
    \/ \E distances \in DistanceConfigs : DistanceChangeMessage(distances)

SpecLog == InitLog /\ [][NextLog]_vars

\* The motion gate alone, mounted on a device that is connecting or connected.
InitMotion ==
    /\ isConnected \in BOOLEAN
    /\ stats = DefaultStats
    /\ offset = IF isConnected THEN Ms(RefMinusPerf) + Ms(14) ELSE 0
    /\ burstPc = IF isConnected THEN "done" ELSE "idle"
    /\ burstI = 0
    /\ totalOffset = 0
    /\ burstLog = EmptyBag
    /\ isSyncing = FALSE
    /\ cycles = << >>
    /\ fired = 0
    /\ lastSync = << >>
    /\ isCalibrating = FALSE
    /\ latencySeen = isConnected
    /\ channel = << >>
    /\ recentEvents = << >>
    /\ gateCalls = 0
    /\ lastEval = << >>
    /\ gateConfig = 2
    /\ distanceConfig = << >>
    /\ lastConfig = << >>
    /\ isArmed = FALSE
    /\ sensitivity = 25
    /\ lastTrigger = 0
    /\ pendingTrigger = << >>
    /\ lastMotion = << >>
    /\ lastAccepted = << >>
    /\ LifeInit(isConnected)
    /\ probeLog = << >>
    /\ calibIn = << >>
    /\ fpsWatch = << >>
    /\ FrameInit
    /\ PeerInit

NextMotion ==
    \/ ToggleArmed
    \/ \E value \in Sensitivities : SetSensitivity(value)
    \/ \E delta \in Deltas, metadata \in MotionMetadatas, nowMs \in MotionNowMs :
         HandleMotion(delta, metadata, nowMs) /\ UNCHANGED frameVars
    \/ MotionRender

SpecMotion == InitMotion /\ [][NextMotion]_vars

\* The peer transport as it carries events: clients dial, connections open
\* at either end, peers publish, messages are delivered, connections close.
\* All of it happens before the first sleep of a startup sync is over, and
\* no message takes time.
NextPeerEvents ==
    \/ \E c \in Clients : ConnectToHost(c, NoLatency)
    \/ \E c \in Clients : OpenAtHost(c)
    \/ \E c \in Clients : OpenAtClient(c)
    \/ \E c \in Clients : CloseConnection(c)
    \/ \E p \in Peers : Publish(p)
    \/ \E c \in Clients : HostReceives(c)
    \/ \E c \in Clients : ClientReceives(c)

SpecPeerEvents == Init /\ [][NextPeerEvents]_vars

\* The peer transport as it keeps time, for one client: its startup sync,
\* getServerTime() calls of the application, messages that take their time,
\* and the timers, which fire when they are due.
TimedClients == { "c1" }

NextPeerTime ==
    \/ \E c \in TimedClients, lat \in ConnectionLatenciesMs :
          ConnectToHost(c, lat)
    \/ \E c \in TimedClients : OpenAtHost(c)
    \/ \E c \in TimedClients : OpenAtClient(c)
    \/ \E c \in TimedClients : CloseConnection(c)
    \/ \E c \in TimedClients : HostReceives(c)
    \/ \E c \in TimedClients : ClientReceives(c)
    \/ \E c \in TimedClients : GetServerTime(c)
    \/ \E r \in 1..Len(timeReqs) : TimeoutFires(r)
    \/ \E c \in TimedClients : SyncWakes(c)
    \/ PeerTick

SpecPeerTime ==
    /\ Init
    /\ [][NextPeerTime]_vars
    /\ WF_vars(\E r \in 1..Len(timeReqs) : TimeoutFires(r))
    /\ WF_vars(\E c \in TimedClients : SyncWakes(c))
    /\ WF_vars(\E c \in TimedClients : HostReceives(c))
    /\ WF_vars(\E c \in TimedClients : ClientReceives(c))
    /\ WF_vars(PeerTick)

\* The motion gate with its frame differencing: frames arrive from a source
\* that may change its resolution.
NextFrames ==
    \/ ToggleArmed
    \/ \E size \in VideoSizes : VideoResize(size)
    \/ \E green \in GreenLevels, metadata \in MotionMetadatas,
          nowMs \in MotionNowMs : ProcessFrame(green, metadata, nowMs)
    \/ MotionRender

SpecFrames == InitMotion /\ [][NextFrames]_vars

\* The startup burst next to the event path: a device that connects while its
\* user triggers gates.
StartupMetadatas ==
    { Undefined,
      [ type |-> "object", processingLatency |-> Num(Ms(3)),
        cameraLatency |-> Num(Ms(12)) ] }

NextStartup ==
    \/ Connect
    \/ BurstProbe
    \/ BurstFail
    \/ BurstFinish
    \/ \E source \in Sources, metadata \in StartupMetadatas, nowMs \in GateNowMs :
         TriggerGate(source, metadata, nowMs)
           /\ UNCHANGED << motionVars, frameVars >>
    \/ GateTriggerReceived

SpecStartup == Init /\ [][NextStartup]_vars

\* The estimator over the provider's lifetime: connection, burst, timers,
\* cycles and unmount, with time.
NextLife ==
    \/ Connect
    \/ BurstProbe
    \/ BurstFail
    \/ BurstFinish
    \/ Tick
    \/ StartPeriodicSync
    \/ IntervalFires
    \/ \E k \in 1..Len(cycles) : DriftProbe(k)
    \/ \E k \in 1..Len(cycles) : DriftProbeFail(k)
    \/ \E k \in 1..Len(cycles) : DriftFinish(k)
    \/ Teardown

SpecLife == Init /\ [][NextLife]_vars

\* The drift correction alone, on a connected device whose burst is done, with
\* a record of every sample a cycle measures.  Next to the latencies of the
\* estimator a round trip may be slow and lopsided: RTT 300 ms, estimate
\* 100 ms off.
DriftLatencies == Latencies \cup { << 250, 50 >> }

InitDrift ==
    /\ isConnected = TRUE
    /\ stats = DefaultStats
    /\ offset = Ms(RefMinusPerf) + Ms(14)
    /\ burstPc = "done"
    /\ burstI = 0
    /\ totalOffset = 0
    /\ burstLog = EmptyBag
    /\ isSyncing = FALSE
    /\ cycles = << >>
    /\ fired = 0
    /\ lastSync = << >>
    /\ isCalibrating = FALSE
    /\ latencySeen = TRUE
    /\ channel = << >>
    /\ recentEvents = << >>
    /\ gateCalls = 0
    /\ lastEval = << >>
    /\ gateConfig = 2
    /\ distanceConfig = << >>
    /\ lastConfig = << >>
    /\ isArmed = FALSE
    /\ sensitivity = 25
    /\ lastTrigger = 0
    /\ pendingTrigger = << >>
    /\ lastMotion = << >>
    /\ lastAccepted = << >>
    /\ LifeInit(TRUE)
    /\ probeLog = << >>
    /\ calibIn = << >>
    /\ fpsWatch = << >>
    /\ FrameInit
    /\ PeerInit

NextDrift ==
    \/ /\ DriftTrigger
       /\ probeLog' = IF SyncBusy THEN probeLog ELSE << >>
       /\ UNCHANGED << clock, syncInterval >>
    \/ \E k \in 1..Len(cycles), startMs \in PerfTimes, lat \in DriftLatencies :
         /\ DriftProbeWith(k, startMs, lat)
         /\ probeLog' = Append(probeLog, DriftSample(ablyTime(startMs, lat)))
    \/ \E k \in 1..Len(cycles) : DriftProbeFail(k)
    \/ \E k \in 1..Len(cycles) : DriftFinish(k)

SpecDrift == InitDrift /\ [][NextDrift]_vars

\* The calibration run alone, on a connected device whose burst is done, with
\* a record of what each published run observed.
\* Kinds of exchange with /api/time-sync: the fetch throws; no latency at all;
\* 10 ms up and 30 ms down; a round trip of exactly the RTT limit; one above.
AsymKinds ==
    { AsymEntry(FALSE, 0, 0), AsymEntry(TRUE, 0, 0), AsymEntry(TRUE, 10, 30),
      AsymEntry(TRUE, AsymRttLimitMs \div 2, AsymRttLimitMs \div 2),
      AsymEntry(TRUE, 300, 300) }

\* Runs in which three or four exchanges of different round-trip times and
\* asymmetries are answered, in no particular order, one of them after 6 ms
\* of processing on the server, and the other fetches throw.
AsymMixedRuns ==
    { [ i \in 1..SAMPLE_COUNT |->
          CASE i = 2 -> [ AsymEntry(TRUE, 50, 30) EXCEPT !.proc = 6 ]
            [] i = 5 -> AsymEntry(TRUE, 10, 30)
            [] i = 6 -> AsymEntry(TRUE, 40, 20)
            [] OTHER -> AsymEntry(FALSE, 0, 0) ],
      [ i \in 1..SAMPLE_COUNT |->
          CASE i = 1 -> AsymEntry(TRUE, 80, 40)
            [] i = 3 -> AsymEntry(TRUE, 10, 30)
            [] i = 4 -> AsymEntry(TRUE, 30, 70)
            [] i = 9 -> AsymEntry(TRUE, 40, 20)
            [] OTHER -> AsymEntry(FALSE, 0, 0) ] }

\* The SAMPLE_COUNT exchanges of a run: all of one kind, half and half, or
\* mixed.
AsymRuns ==
    { [ i \in 1..SAMPLE_COUNT |-> IF 2 * i <= n THEN a ELSE b ] :
        a \in AsymKinds, b \in AsymKinds, n \in { 0, SAMPLE_COUNT } }
      \cup AsymMixedRuns

\* The PING_COUNT round trips of the fallback: without latency, or with
\* 30/50 ms and one faster round trip.
AblyRuns ==
    { [ i \in 1..PING_COUNT |-> AblyEntry(0, 0) ],
      [ i \in 1..PING_COUNT |->
          IF i = 3 THEN AblyEntry(10, 10) ELSE AblyEntry(30, 50) ] }

CalibProbes ==
    { [ asym |-> a, ably |-> b,
        waits |-> [ i \in 1..SAMPLES |-> Ms(JitterWaitMs + 4) ],
        video |-> v ] :
      a \in AsymRuns, b \in AblyRuns, v \in { << >>, << 25, 1000 >> } }

CalibProbeRuns == { [ in |-> in, run |-> RunCalibration(in) ] : in \in CalibProbes }

InitCalib ==
    /\ isConnected = TRUE
    /\ stats = DefaultStats
    /\ offset = Ms(RefMinusPerf) + Ms(14)
    /\ burstPc = "done"
    /\ burstI = 0
    /\ totalOffset = 0
    /\ burstLog = EmptyBag
    /\ isSyncing = FALSE
    /\ cycles = << >>
    /\ fired = 0
    /\ lastSync = << >>
    /\ isCalibrating = FALSE
    /\ latencySeen = TRUE
    /\ channel = << >>
    /\ recentEvents = << >>
    /\ gateCalls = 0
    /\ lastEval = << >>
    /\ gateConfig = 2
    /\ distanceConfig = << >>
    /\ lastConfig = << >>
    /\ isArmed = FALSE
    /\ sensitivity = 25
    /\ lastTrigger = 0
    /\ pendingTrigger = << >>
    /\ lastMotion = << >>
    /\ lastAccepted = << >>
    /\ LifeInit(TRUE)
    /\ probeLog = << >>
    /\ calibIn = << >>
    /\ fpsWatch = << >>
    /\ FrameInit
    /\ PeerInit

NextCalib ==
    \/ CalibStart
    \/ \E p \in CalibProbeRuns :
         CalibPublishRun(p.run) /\ calibIn' = << p.in >> /\ UNCHANGED fpsWatch
    \/ CalibFail

SpecCalib == InitCalib /\ [][NextCalib]_vars

\* The calibration run step by step on a connected device, with or without
\* a video element to watch.  Timers fire and network requests are answered,
\* so the measurements that depend only on them end; nothing makes a video
\* present a frame.
NextWatch ==
    \/ CalibStart
    \/ CalibPublishNoVideo
    \/ MeasureFPSStart
    \/ \E gap \in FrameGapsMs : FrameCallback(gap)
    \/ CalibFail /\ fpsWatch = << >>

SpecWatch ==
    /\ InitCalib
    /\ [][NextWatch]_vars
    /\ WF_vars(CalibPublishNoVideo \/ MeasureFPSStart)

\* ===================================================== claims on the estimator
RECURSIVE SumOver(_, _)
SumOver(S, B) ==
    IF S = {} THEN 0
    ELSE LET x == CHOOSE y \in S : TRUE
         IN  x * CopiesIn(x, B) + SumOver(S \ { x }, B)

\* Sum of the elements of a bag of integers.
BagSum(B) == SumOver(BagToSet(B), B)

\* The step in which the burst writes its result.
BurstFinishStep == burstPc = "running" /\ burstPc' = "done"

\* The step in which the only cycle in flight runs to the end of its loop.
CycleFinishStep ==
    /\ Len(cycles) = 1
    /\ cycles[1].i = SAMPLES_PER_SYNC
    /\ cycles' = << >>

\* Offset of the earliest sample among those with the least round-trip time.
BestOffsetSample(samples) ==
    LET i == CHOOSE j \in 1..Len(samples) :
                 /\ \A m \in 1..Len(samples) : samples[j].rtt <= samples[m].rtt
                 /\ \A m \in 1..(j - 1) : samples[m].rtt > samples[j].rtt
    IN  samples[i].offset

\* clamp(x, -50 ms, +50 ms)
Clamp50(x) ==
    IF x > Ms(50) THEN Ms(50) ELSE IF x < -Ms(50) THEN -Ms(50) ELSE x

\* C1: the startup burst takes 5 samples and sets ClockOffset to exactly the
\* arithmetic mean of the 5 per-sample offsets, unclamped and unsmoothed:
\* five times the value written is the sum of the five sample offsets.
C1_StartupMean ==
    [][ BurstFinishStep =>
          /\ BagCardinality(burstLog) = 5
          /\ offset' * 5 = BagSum(burstLog) ]_vars

\* A finished burst of four zero-latency samples and one 150/10 ms sample:
\* the offset is the true offset plus 70/5 ms, far from the previous value 0.
C1_Witness ==
    /\ burstPc = "done"
    /\ fired = 0
    /\ ~stats.isCalibrated
    /\ offset = Ms(RefMinusPerf) + Ms(14)

\* C2: a cycle with at least one surviving sample returns currentOffset +
\* clamp(bestOffsetSample - currentOffset, -50, +50) * 0.3, the clamp applied
\* before the smoothing factor; with currentOffset 0 and best 80 that is 15.
C2_ClampThenSmooth ==
    /\ [][ (CycleFinishStep /\ cycles[1].samples # << >>) =>
             LET cur == cycles[1].cur
                 best == BestOffsetSample(cycles[1].samples)
             IN  /\ lastSync' # << >>
                 /\ (lastSync'[1].ret - cur) * 10 = Clamp50(best - cur) * 3 ]_vars
    /\ [](SmoothedOffset(0, Ms(80)) = Ms(15))

\* A cycle started from the exact offset whose best sample was 70 ms off has
\* returned, and applied, a correction of 50 * 0.3 = 15 ms.
C2_Witness ==
    /\ lastSync # << >>
    /\ lastSync[1].outcome = "applied"
    /\ lastSync[1].ret = Ms(RefMinusPerf) + Ms(15)
    /\ offset = lastSync[1].ret

\* C3: a cycle whose samples were all rejected as outliers ends normally
\* (flag cleared, current offset returned) and leaves ClockOffset unchanged.
C3_AllRejectedNoOp ==
    [][ (CycleFinishStep /\ cycles[1].samples = << >>) =>
          /\ offset' = offset
          /\ isSyncing' = FALSE
          /\ lastSync' = << [ outcome |-> "all_rejected",
                              ret |-> cycles[1].cur ] >> ]_vars

\* A cycle that started after a successful burst has ended with every sample
\* rejected.
C3_Witness ==
    /\ lastSync # << >>
    /\ lastSync[1].outcome = "all_rejected"
    /\ burstPc = "done"
    /\ offset # 0
    /\ cycles = << >>

\* C4: at most one cycle is in flight, and a timer firing that finds a cycle
\* in flight issues no probe, returns the current offset unmodified and
\* leaves ClockOffset unchanged.
C4_SingleFlight ==
    /\ [](Len(cycles) <= 1)
    /\ [][ (fired' = fired + 1 /\ Len(cycles) >= 1) =>
             /\ cycles' = cycles
             /\ offset' = offset
             /\ lastSync' = << [ outcome |-> "busy", ret |-> offset ] >> ]_vars

\* The timer has fired while a cycle that already took samples was in flight.
C4_Witness ==
    /\ lastSync # << >>
    /\ lastSync[1].outcome = "busy"
    /\ Len(cycles) = 1
    /\ cycles[1].i > 0

\* C5: every step that applies the result of a cycle changes ClockOffset by
\* at most the 50 ms clamp, whatever ran between the start of the cycle and
\* that step.
C5_BoundedStep ==
    [][ (Len(cycles') < Len(cycles) /\ offset' # offset) =>
          Abs(offset' - offset) <= Ms(50) ]_vars

\* The step in which a calibration run publishes its snapshot.
CalibPublishStep == isCalibrating /\ ~isCalibrating' /\ stats'.isCalibrated

\* C6 as stated: ClockOffset is assigned only by the startup burst and by the
\* result of a drift-correction cycle.
C6_EstimatorOnly ==
    [][ offset' # offset => (BurstFinishStep \/ CycleFinishStep) ]_vars

\* C6 amended: ClockOffset is assigned only by the startup burst (the mean of
\* its samples), by a drift-correction cycle through the clamp-and-smooth
\* rule, and by the publication of a calibrated snapshot, which replaces it
\* by the snapshot's networkOffset.
C6_Writers ==
    [][ offset' # offset =>
          \/ BurstFinishStep /\ offset' * 5 = BagSum(burstLog)
          \/ /\ CycleFinishStep
             /\ cycles[1].samples # << >>
             /\ (offset' - cycles[1].cur) * 10
                  = Clamp50(BestOffsetSample(cycles[1].samples) - cycles[1].cur) * 3
          \/ CalibPublishStep /\ offset' = stats'.networkOffset ]_vars

\* A calibration published after the burst has replaced the burst's offset.
C6_Witness ==
    /\ burstPc = "done"
    /\ stats.isCalibrated
    /\ fired = 0
    /\ offset = stats.networkOffset
    /\ offset # 0

\* C7: every value assigned to ClockOffset estimates reference time minus
\* local monotonic time: while no round trip has had latency, the offset
\* left by the burst, by a cycle or by a calibration is exactly that
\* difference.
C7_SameTimebase ==
    (~latencySeen /\ burstPc = "done") => offset = Ms(RefMinusPerf)

\* ================================================== claims on the event path
\* The compensation of section 4.3: now + offset; minus systemLag when
\* calibrated; for a motion event minus cameraLatency when present, otherwise
\* (calibrated and frameDuration > 0 only) minus frameDuration / 2, and minus
\* processingLatency when present.
Compensation(now, off, st, source, metadata) ==
    LET cam == Field(metadata, "cameraLatency")
        proc == Field(metadata, "processingLatency")
        lag == IF st.isCalibrated THEN st.systemLag ELSE 0
        capture == IF source # "motion" THEN 0
                   ELSE IF cam.type = "number" THEN cam.num
                   ELSE IF st.isCalibrated /\ st.frameDuration > 0
                        THEN st.frameDuration \div 2
                   ELSE 0
        processing == IF source = "motion" /\ proc.type = "number"
                      THEN proc.num ELSE 0
    IN  now + off - lag - capture - processing

\* C8: the timestamp triggerGate publishes is the compensation function of
\* section 4.3 applied to (now, offset, CalibrationStats, source, metadata).
C8_MatchesCompensation ==
    lastEval # << >> =>
        LET e == lastEval[1]
        IN  /\ e.timestamp
                 = Compensation(e.now, e.offset, e.stats, e.source, e.metadata)
            /\ e.source = "manual" =>
                 e.timestamp = e.now + e.offset
                    - (IF e.stats.isCalibrated THEN e.stats.systemLag ELSE 0)

\* An uncalibrated motion event carrying both latencies has been published
\* with both subtracted.
C8_Witness ==
    /\ lastEval # << >>
    /\ lastEval[1].source = "motion"
    /\ ~lastEval[1].stats.isCalibrated
    /\ Field(lastEval[1].metadata, "cameraLatency") = Num(Ms(12))
    /\ Field(lastEval[1].metadata, "processingLatency") = Num(Ms(3))
    /\ lastEval[1].timestamp = lastEval[1].now + lastEval[1].offset - Ms(15)
    /\ Len(channel) + Len(recentEvents) >= 1

\* C9: for a motion event that carries a cameraLatency, only the camera
\* latency is subtracted for the capture delay, never the half frame as well.
C9_CameraExcludesHalfFrame ==
    (/\ lastEval # << >>
     /\ lastEval[1].source = "motion"
     /\ Field(lastEval[1].metadata, "cameraLatency").type = "number") =>
        LET e == lastEval[1]
            proc == Field(e.metadata, "processingLatency")
        IN  e.timestamp = e.now + e.offset
              - (IF e.stats.isCalibrated THEN e.stats.systemLag ELSE 0)
              - Field(e.metadata, "cameraLatency").num
              - (IF proc.type = "number" THEN proc.num ELSE 0)

\* A calibrated device with a measured frame duration has published a motion
\* event that carried a camera latency.
C9_Witness ==
    /\ lastEval # << >>
    /\ lastEval[1].source = "motion"
    /\ lastEval[1].stats.isCalibrated
    /\ lastEval[1].stats.frameDuration > 0
    /\ Field(lastEval[1].metadata, "cameraLatency") = Num(Ms(12))

SameInputs(a, b) ==
    /\ a.now = b.now
    /\ a.offset = b.offset
    /\ a.stats = b.stats
    /\ a.source = b.source
    /\ a.metadata = b.metadata

\* C10: an evaluation of the compensation changes neither ClockOffset nor
\* CalibrationStats nor the local event log, and an evaluation on the inputs
\* of the previous one yields the timestamp of the previous one.
C10_PureCompensation ==
    [][ gateCalls' = gateCalls + 1 =>
          /\ offset' = offset
          /\ stats' = stats
          /\ recentEvents' = recentEvents
          /\ (lastEval # << >> /\ lastEval' # << >>
                /\ SameInputs(lastEval'[1], lastEval[1]))
               => lastEval'[1].timestamp = lastEval[1].timestamp ]_vars

\* Two calls with the same calibrated motion inputs have been published, with
\* the same timestamp.
C10_Witness ==
    /\ gateCalls = 2
    /\ Len(channel) = 2
    /\ channel[1] = channel[2]
    /\ lastEval # << >>
    /\ lastEval[1].source = "motion"
    /\ lastEval[1].stats.isCalibrated
    /\ lastEval[1].stats.systemLag > 0
    /\ lastEval[1].timestamp = channel[2].timestamp

\* =================================================== claims on the event log
Range(s) == { s[i] : i \in 1..Len(s) }

\* The events of a sequence, counted.
SeqBag(s) == [ x \in Range(s) |-> Cardinality({ i \in 1..Len(s) : s[i] = x }) ]

\* The events of a list of windows, first window first.
RECURSIVE WindowEvents(_)
WindowEvents(windows) ==
    IF windows = << >> THEN << >>
    ELSE Head(windows).events \o WindowEvents(Tail(windows))

Ascending(events) ==
    \A i \in 1..(Len(events) - 1) : events[i].timestamp <= events[i + 1].timestamp

\* The step in which this device's gate-trigger subscription takes the oldest
\* message in flight.
GateReceiptStep == channel # << >> /\ channel' = Tail(channel)

\* C11: compensation happens once, at the publisher: the message carries the
\* timestamp triggerGate computed, a subscriber stores the message's event as
\* it is (no offset, no latency added on receipt), and the derived windows
\* hold exactly the stored events.
C11_CompensatedOnce ==
    /\ [][ (gateCalls' = gateCalls + 1 /\ channel' # channel) =>
             /\ Len(channel') = Len(channel) + 1
             /\ channel'[Len(channel')].timestamp = lastEval'[1].timestamp ]_vars
    /\ [][ GateReceiptStep =>
             recentEvents' = << Head(channel) >> \o recentEvents ]_vars
    /\ [](\A sprints \in { Sprints(recentEvents, gateConfig) } :
            SeqBag(WindowEvents(sprints)) = SeqBag(recentEvents))

\* A calibrated device with a clock offset and a system lag has received the
\* two events it published, the last a motion event, in its log and windows.
C11_Witness ==
    /\ Len(recentEvents) = 2
    /\ channel = << >>
    /\ offset # 0
    /\ stats.isCalibrated
    /\ stats.systemLag > 0
    /\ lastEval # << >>
    /\ lastEval[1].source = "motion"
    /\ recentEvents[1].timestamp = lastEval[1].timestamp
    /\ Len(Sprints(recentEvents, gateConfig)) = 1

\* The windows W (first window first) are the log sorted by timestamp and cut
\* into chunks of g: floor(n / g) complete windows, then one partial window
\* of n mod g events when that is not 0.
ChronologicalChunks(W, log, g) ==
    LET n == Len(log)
    IN  /\ Len(W) = (n \div g) + (IF n % g # 0 THEN 1 ELSE 0)
        /\ \A k \in 1..Len(W) :
             IF k <= n \div g
             THEN Len(W[k].events) = g /\ W[k].complete
             ELSE Len(W[k].events) = n % g /\ ~W[k].complete
        /\ \A all \in { WindowEvents(W) } :
             Ascending(all) /\ SeqBag(all) = SeqBag(log)

\* C12 as stated: the list of derived windows is in chronological order.
C12_ChronologicalList ==
    ChronologicalChunks(Sprints(recentEvents, gateConfig), recentEvents,
                        gateConfig)

\* C12: the derived windows are the chunks of g of the events sorted by
\* timestamp, floor(n / g) complete and one partial of n mod g events; the
\* list holds them newest first, and the window shown as "Sprint k" is the
\* k-th chunk in chronological order.
C12_NewestFirstList ==
    \A sprints \in { Sprints(recentEvents, gateConfig) } :
      \A byNumber \in { [ k \in 1..Len(sprints) |-> SprintNumbered(sprints, k) ] } :
        /\ ChronologicalChunks(byNumber, recentEvents, gateConfig)
        /\ byNumber = Reverse(sprints)

\* Seven events have arrived in timestamp order under gateConfig = 3: two
\* complete windows and one partial window of one, the partial window first
\* in the list and the oldest three events last.
C12_Witness ==
    /\ gateConfig = 3
    /\ Len(recentEvents) = 7
    /\ \A i \in 1..6 : recentEvents[i].timestamp >= recentEvents[i + 1].timestamp
    /\ LET sprints == Sprints(recentEvents, gateConfig)
       IN  /\ Len(sprints) = 3
           /\ sprints[1].events = << recentEvents[1] >>
           /\ ~sprints[1].complete
           /\ sprints[2].complete
           /\ sprints[3].complete
           /\ sprints[3].events[1] = recentEvents[7]

\* C13: every derived race has between 1 and gateConfig events, every race
\* but the chronologically last has exactly gateConfig events, and at most
\* one race, the last, is partial.
C13_WindowSizes ==
    \A sprints \in { Sprints(recentEvents, gateConfig) } :
      LET last == Len(sprints)
      IN
        /\ \A k \in 1..last :
             /\ Len(SprintNumbered(sprints, k).events) >= 1
             /\ Len(SprintNumbered(sprints, k).events) <= gateConfig
             /\ k # last => Len(SprintNumbered(sprints, k).events) = gateConfig
             /\ k # last => SprintNumbered(sprints, k).complete
        /\ Cardinality({ k \in 1..last : ~sprints[k].complete }) <= 1
        /\ \A k \in 1..last :
             sprints[k].complete <=> Len(sprints[k].events) = gateConfig

\* After a change of the gate count and of the distances, six events make a
\* complete race of four and a partial race of two.
C13_Witness ==
    /\ gateConfig = 4
    /\ distanceConfig # << >>
    /\ Len(recentEvents) = 6
    /\ LET sprints == Sprints(recentEvents, gateConfig)
       IN  /\ Len(sprints) = 2
           /\ Len(sprints[1].events) = 2
           /\ Len(sprints[2].events) = 4

\* C14: right after a config-change message gateConfig is the message's
\* count and the event log is empty, also when the count is the one already
\* set.
C14_ConfigChangeClears ==
    lastConfig # << >> =>
        /\ gateConfig = lastConfig[1].count
        /\ recentEvents = << >>

\* A config-change with the count already set arrived while the log held
\* three events, and the log is empty.
C14_Witness ==
    /\ lastConfig # << >>
    /\ lastConfig[1].count = lastConfig[1].previous
    /\ lastConfig[1].held = 3
    /\ recentEvents = << >>

\* C15: the derived windows, with the order of the events inside them, do not
\* depend on the order in which the events of the log arrived: the log read
\* in the opposite arrival order gives the same windows.
C15_ArrivalOrderFree ==
    Sprints(recentEvents, gateConfig) = Sprints(Reverse(recentEvents), gateConfig)

\* ================================================== claims on the motion gate
\* C16: a delta delivered while armed is accepted exactly when it is above
\* the sensitivity threshold and either no trigger was accepted before or at
\* least 2000 ms have passed since the last accepted trigger.
C16_CooldownRule ==
    [][ lastMotion' # lastMotion =>
          LET m == lastMotion'[1]
          IN  m.accepted <=>
                /\ m.delta > m.sensitivity
                /\ (m.since = << >>
                      \/ m.now - m.since[1] >= Ms(COOLDOWN_MS)) ]_vars

\* ============================================== claims on the segment figures
\* distance_i of the claims: 0 at the start line, else the configured distance.
DistanceAt(distances, i) == IF i = 0 THEN 0 ELSE distances[i]

\* The distances of gates 1..i are all configured.
DistancesPresent(distances, i) ==
    /\ i <= Len(distances)
    /\ \A j \in 1..i : distances[j] # 0

\* dt_i in seconds: the time from event i - 1 to event i of a race (events
\* counted from 0).
Dt(events, i) == Rat(events[i + 1].timestamp - events[i].timestamp, 1000 * Scale)

\* velocity_i = (distance_i - distance_{i-1}) / dt_i, velocity_0 = 0.
VelocityOf(events, distances, i) ==
    IF i = 0 THEN Rat(0, 1)
    ELSE RatDiv(Rat(DistanceAt(distances, i) - DistanceAt(distances, i - 1), 1),
                Dt(events, i))

\* acceleration_i = (velocity_i - velocity_{i-1}) / dt_i
AccelerationOf(events, distances, i) ==
    RatDiv(RatSub(VelocityOf(events, distances, i),
                  VelocityOf(events, distances, i - 1)),
           Dt(events, i))

\* C17: with the distances of a race's gates configured and positive time
\* deltas, the velocity and the acceleration computed for segment i >= 1 are
\* (distance_i - distance_{i-1}) / dt_i and (velocity_i - velocity_{i-1}) / dt_i
\* with distance_0 = 0 and velocity_0 = 0, and both are displayed to two
\* decimals.
C17_SegmentFigures ==
    \A sprints \in { Sprints(recentEvents, gateConfig) } :
        \A k \in 1..Len(sprints) :
          \A events \in { sprints[k].events },
             card \in { SprintCard(sprints[k], distanceConfig) } :
              \A i \in 1..(Len(events) - 1) :
                (/\ DistancesPresent(distanceConfig, i)
                 /\ \A j \in 1..i : RatPositive(Dt(events, j))) =>
                    /\ card[i + 1].velocity = VelocityOf(events, distanceConfig, i)
                    /\ card[i + 1].acceleration
                         = AccelerationOf(events, distanceConfig, i)
                    /\ card[i + 1].velocityDisplay
                         = << ToFixed2(VelocityOf(events, distanceConfig, i)) >>
                    /\ card[i + 1].accelDisplay
                         = << ToFixed2(RatAbs(AccelerationOf(events,
                                                             distanceConfig, i))) >>

\* Distances 10, 20, 30 m and gate events 1.0 s, 0.9 s and 1.0 s apart: the
\* card shows the velocities 10.00, 11.11 and 10.00 m/s and the acceleration
\* 1.23 m/s^2 for the second segment.
C17_Witness ==
    /\ gateConfig = 4
    /\ distanceConfig = << 10, 20, 30 >>
    /\ Len(recentEvents) = 4
    /\ LET sprints == Sprints(recentEvents, gateConfig)
           card == SprintCard(sprints[1], distanceConfig)
       IN  /\ Len(sprints) = 1
           /\ [ i \in 1..4 |-> sprints[1].events[i].timestamp ]
                = << Ms(1000), Ms(2000), Ms(2900), Ms(3900) >>
           /\ card[2].velocityDisplay = << 1000 >>
           /\ card[3].velocityDisplay = << 1111 >>
           /\ card[4].velocityDisplay = << 1000 >>
           /\ card[3].accelDisplay = << 123 >>
           /\ card[3].accelArrow = "up"

\* C18: a velocity is shown only when distance_i and distance_{i-1} are
\* configured and dt_i is not 0, an acceleration only when in addition, for
\* i >= 2, distance_{i-2} is configured and dt_{i-1} is not 0; otherwise the
\* value is unavailable.
C18_UnavailableWhenMissing ==
    LET missing(i) == i # 0 /\ ~(i <= Len(distanceConfig) /\ distanceConfig[i] # 0)
    IN  \A sprints \in { Sprints(recentEvents, gateConfig) } :
        \A k \in 1..Len(sprints) :
          \A events \in { sprints[k].events },
             card \in { SprintCard(sprints[k], distanceConfig) } :
              \A i \in 1..(Len(events) - 1) :
                LET noVelocity == \/ missing(i)
                                  \/ missing(i - 1)
                                  \/ Dt(events, i).num = 0
                    noAcceleration ==
                        \/ noVelocity
                        \/ (i >= 2 /\ (missing(i - 2) \/ Dt(events, i - 1).num = 0))
                IN  /\ noVelocity => card[i + 1].velocityDisplay = << >>
                    /\ noAcceleration => card[i + 1].accelDisplay = << >>

\* ============================================ claims on the calibration run
\* The snapshots a calibration run can publish.
PublishedSnapshots == { run.snapshot : run \in CalibrationRuns }

\* The step in which a calibration run ends: isCalibrating goes back to false.
CalibEndStep == isCalibrating /\ ~isCalibrating'

\* C19: CalibrationStats is the default or, whole, the snapshot of one run;
\* it changes only in the step that ends a run, and then to one snapshot with
\* isCalibrated = true; a run that ends otherwise leaves every field alone.
C19_WholeSnapshots ==
    /\ [](stats = DefaultStats \/ stats \in PublishedSnapshots)
    /\ [][ stats' # stats =>
             /\ CalibEndStep
             /\ stats' \in PublishedSnapshots
             /\ stats'.isCalibrated ]_vars
    /\ [][ CalibEndStep => (stats' = stats \/ stats' \in PublishedSnapshots) ]_vars

\* A run without a video element and without scheduler lag has published: the
\* snapshot has network figures, and fps, frameDuration and systemLag are the
\* run's 0, whatever an earlier run had measured.
C19_Witness ==
    /\ ~isCalibrating
    /\ stats.isCalibrated
    /\ stats.uploadLatency > 0
    /\ stats.fps = 0
    /\ stats.frameDuration = 0
    /\ stats.systemLag = 0

\* C20: every calibration run that ends, also one whose network measurement
\* raised an error, ends with isCalibrating = false and has published a
\* snapshot with isCalibrated = true.
C20_FailureStillPublishes ==
    [][ CalibEndStep =>
          /\ ~isCalibrating'
          /\ stats'.isCalibrated
          /\ stats' \in PublishedSnapshots ]_vars

\* The step in which a run publishes and what it observed is recorded.
CalibObservedStep == CalibEndStep /\ calibIn' # calibIn

\* C21: a run whose asymmetric exchange is unavailable or yields no valid
\* sample publishes the figures of the symmetric method: uploadLatency =
\* downloadLatency = average RTT / 2, and networkOffset = the offset of the
\* lowest-RTT round trip.
C21_SymmetricFallback ==
    [][ CalibObservedStep =>
          \A in \in { calibIn'[1] } :
            measureAsymmetricLatency(in.asym) = << >> =>
              \A sym \in { measureNetworkAbly(in.ably) } :
                 /\ stats'.uploadLatency = sym.rtt \div 2
                 /\ stats'.downloadLatency = sym.rtt \div 2
                 /\ stats'.networkOffset = sym.bestOffset ]_vars

\* C22: of the exchanges that were answered, exactly those with a negative
\* upload or download latency or an RTT above 500 ms are discarded; the
\* others (zero latency, RTT exactly 500 ms) are kept, and when there is one
\* the published networkRTT is the average over them.
C22_DiscardRule ==
    [][ CalibObservedStep =>
          \A in \in { calibIn'[1] } :
            LET smp(i) == AsymSample(in.asym[i]).smp
                answered == { i \in 1..SAMPLE_COUNT : in.asym[i].ok }
                discarded == { i \in answered :
                                 \/ smp(i).uploadEst < 0
                                 \/ smp(i).downloadEst < 0
                                 \/ smp(i).rtt > Ms(AsymRttLimitMs) }
                survivors == answered \ discarded
                total == SumSeq([ i \in 1..SAMPLE_COUNT |->
                                    IF i \in survivors THEN smp(i).rtt ELSE 0 ])
            IN  /\ \A i \in answered :
                     AsymSample(in.asym[i]).keep <=> i \in survivors
                /\ survivors # {} =>
                     stats'.networkRTT = total \div Cardinality(survivors) ]_vars

\* ================================================= claims on startup failure
\* The step of a triggerGate call made after the burst has failed.
TriggerAfterFailureStep == burstPc = "failed" /\ gateCalls' = gateCalls + 1

\* C23: once a startup probe has failed, ClockOffset is still 0, isCalibrated
\* is still false and the device is still connected; a triggerGate call then
\* publishes one gate-trigger event, for a manual event with the plain
\* performance.now() reading as its timestamp, and disturbs nothing else.
C23_StartupFailureHarmless ==
    /\ [](burstPc = "failed" =>
            (offset = 0 /\ ~stats.isCalibrated /\ isConnected))
    /\ [][ TriggerAfterFailureStep =>
             /\ channel' = Append(channel, [ timestamp |-> lastEval'[1].timestamp,
                                             source |-> lastEval'[1].source ])
             /\ lastEval'[1].source = "manual" =>
                  lastEval'[1].timestamp = lastEval'[1].now
             /\ burstPc' = "failed"
             /\ offset' = 0 ]_vars

\* The burst has failed before any round trip with latency, and a manual
\* event triggered at 2600 ms has been delivered with exactly that timestamp.
C23_Witness ==
    /\ burstPc = "failed"
    /\ ~latencySeen
    /\ offset = 0
    /\ recentEvents # << >>
    /\ recentEvents[1] = [ timestamp |-> Ms(2600), source |-> "manual" ]

\* ====================================== claims on the lifetime and the timers
\* C24: after the unmount neither timer is pending, no timer fires and no
\* cycle starts, and the burst or cycle that was in flight completes without
\* changing ClockOffset.
C24_TeardownIsFinal ==
    /\ [](~mounted => (initialDelay = << >> /\ syncInterval = << >>))
    /\ [][ ~mounted =>
             /\ fired' = fired
             /\ Len(cycles') <= Len(cycles)
             /\ offset' = offset ]_vars

\* After the unmount a cycle has run to its end with a corrected offset that
\* ClockOffset did not take.
C24_Witness ==
    /\ ~mounted
    /\ cycles = << >>
    /\ lastSync # << >>
    /\ lastSync[1].outcome = "applied"
    /\ lastSync[1].ret # offset

\* The step in which the interval timer fires.
TimerFiresStep == fired' = fired + 1

\* C28 as stated: the first firing comes one sync interval after the
\* connection, and each later one 30 s after the one before.
C28_FirstCycleAfterOneInterval ==
    [][ TimerFiresStep =>
          clock = connectedAt[1] + (fired + 1) * SYNC_INTERVAL_MS ]_vars

\* C28 amended: the first cycle begins two sync intervals (60 s) after the
\* connection, the 30 s initial delay and then the first period of the
\* interval timer; each later cycle begins 30 s after the one before.
C28_FirstCycleAfterTwoIntervals ==
    [][ TimerFiresStep =>
          /\ Len(cycles') = Len(cycles) + 1
          /\ clock = connectedAt[1] + (fired + 2) * SYNC_INTERVAL_MS ]_vars

\* A device that connected at 15 s has begun its second cycle at 105 s.
C28_Witness ==
    /\ mounted
    /\ connectedAt = << TickMs >>
    /\ fired = 2
    /\ Len(cycles) = 1
    /\ clock = TickMs + 3 * SYNC_INTERVAL_MS

\* ============================================= claims on the drift samples
\* The step in which a cycle leaves flight.
CycleEndStep == Len(cycles') < Len(cycles)

\* The step in which the only cycle in flight measures one more sample.
ProbeStep ==
    /\ Len(cycles) = 1
    /\ Len(cycles') = 1
    /\ Len(probeLog') = Len(probeLog) + 1

\* C25: a probe that fails costs the cycle that one sample only: a cycle
\* leaves flight only when its five probes are done, and then with the
\* result computed from the samples that survived.
C25_FailedProbeSkipped ==
    [][ CycleEndStep =>
          /\ Len(cycles) = 1
          /\ cycles[1].i = SAMPLES_PER_SYNC
          /\ lastSync' = << [ outcome |-> IF cycles[1].samples = << >>
                                          THEN "all_rejected" ELSE "applied",
                              ret |-> DriftResult(cycles[1].cur,
                                                  cycles[1].samples) ] >> ]_vars

\* C26: a measured sample is rejected exactly when its roundTripTime exceeds
\* 200 ms; every other sample, one of exactly 200 ms too, joins the surviving
\* samples.
C26_OutlierRule ==
    [][ ProbeStep =>
          \A smp \in { probeLog'[Len(probeLog')] } :
            IF smp.rtt > Ms(OUTLIER_THRESHOLD_MS)
            THEN cycles'[1].samples = cycles[1].samples
            ELSE cycles'[1].samples = Append(cycles[1].samples, smp) ]_vars

\* The samples performDriftSync keeps of a sequence of measured ones.
RECURSIVE Survivors(_)
Survivors(log) ==
    IF log = << >> THEN << >>
    ELSE KeepSample(Survivors(SubSeq(log, 1, Len(log) - 1)), log[Len(log)])

\* The measured samples with the offset of every rejected one replaced by d.
RejectedMovedTo(log, d) ==
    [ i \in 1..Len(log) |->
        IF KeepSample(<< >>, log[i]) = << >>
        THEN [ log[i] EXCEPT !.offset = d ] ELSE log[i] ]

\* C27: when a sample of the cycle survives, the value the cycle returns and
\* ClockOffset takes is currentOffset + clamp(best - currentOffset) * 0.3 for
\* a surviving sample `best` of minimum roundTripTime, and it is the same
\* whatever the offsets of the rejected samples are.
C27_BestSurvivorOnly ==
    [][ (CycleFinishStep /\ cycles[1].samples # << >>) =>
          \A cur \in { cycles[1].cur } , kept \in { cycles[1].samples } :
            /\ kept = Survivors(probeLog)
            /\ \E j \in 1..Len(kept) :
                 /\ \A m \in 1..Len(kept) : kept[j].rtt <= kept[m].rtt
                 /\ (lastSync'[1].ret - cur) * 10
                      = Clamp50(kept[j].offset - cur) * 3
            /\ offset' = lastSync'[1].ret
            /\ \A d \in { 0, Ms(2 * RefMinusPerf) } :
                 DriftResult(cur, Survivors(RejectedMovedTo(probeLog, d)))
                   = lastSync'[1].ret ]_vars

\* A cycle has measured a rejected sample 100 ms off, a surviving one 70 ms
\* off with RTT 160 ms and a surviving exact one with RTT 0: the correction
\* applied is 0.3 * (-14 ms), that of the exact sample.
C27_Witness ==
    /\ cycles = << >>
    /\ fired = 1
    /\ lastSync # << >>
    /\ lastSync[1].outcome = "applied"
    /\ \E i, j, k \in 1..Len(probeLog) :
         /\ probeLog[i] = [ rtt |-> Ms(300), offset |-> Ms(RefMinusPerf + 100) ]
         /\ probeLog[j] = [ rtt |-> Ms(160), offset |-> Ms(RefMinusPerf + 70) ]
         /\ probeLog[k] = [ rtt |-> 0, offset |-> Ms(RefMinusPerf) ]
         /\ j < k
    /\ offset * 10 = (Ms(RefMinusPerf) + Ms(14)) * 10 - Ms(14) * 3

\* ========================================== claims on windows over arrivals
\* The step in which a gate-trigger event is added to the log.
LogArrivalStep ==
    /\ Len(recentEvents') = Len(recentEvents) + 1
    /\ Tail(recentEvents') = recentEvents

\* Window number n of the list `before` is window number n of `after` with
\* the same events, and the event `data` is in a window of a higher number.
WindowKept(before, after, n, data) ==
    /\ Len(after) >= n
    /\ Range(SprintNumbered(after, n).events)
         = Range(SprintNumbered(before, n).events)
    /\ \E m \in (n + 1)..Len(after) :
         data \in Range(SprintNumbered(after, m).events)

\* C29 as stated: every complete window keeps its events when a further
\* event arrives, and the new event is in a later window.
C29_CompleteWindowsFrozen ==
    [][ LogArrivalStep =>
          \A before \in { Sprints(recentEvents, gateConfig) },
             after \in { Sprints(recentEvents', gateConfig) } :
            \A n \in 1..Len(before) :
              SprintNumbered(before, n).complete =>
                WindowKept(before, after, n, recentEvents'[1]) ]_vars

\* C29 amended: a complete window keeps its events, and the new event is in
\* a later window, when the timestamp of the arriving event is later than
\* that of every event of the window.
C29_WindowsFrozenForLaterEvents ==
    [][ LogArrivalStep =>
          \A before \in { Sprints(recentEvents, gateConfig) },
             after \in { Sprints(recentEvents', gateConfig) } :
            \A n \in 1..Len(before) :
              ( /\ SprintNumbered(before, n).complete
                /\ \A e \in Range(SprintNumbered(before, n).events) :
                     e.timestamp < recentEvents'[1].timestamp ) =>
                WindowKept(before, after, n, recentEvents'[1]) ]_vars

\* With two gates, the events of 1000 ms and 2000 ms were a complete window
\* when the event of 2900 ms arrived out of order after the one of 3900 ms:
\* the first window is as it was, the late event heads the second.
C29_Witness ==
    /\ gateConfig = 2
    /\ Len(recentEvents) = 4
    /\ recentEvents[1].timestamp = Ms(2900)
    /\ recentEvents[2].timestamp = Ms(3900)
    /\ \A sprints \in { Sprints(recentEvents, gateConfig) } :
         /\ Len(sprints) = 2
         /\ Range(SprintNumbered(sprints, 1).events)
              = { recentEvents[3], recentEvents[4] }
         /\ SprintNumbered(sprints, 2).events = << recentEvents[1], recentEvents[2] >>

\* =========================================== claims on the motion triggers
\* C30: whenever a motion trigger is accepted after another one, the two are
\* at least 2000 ms of performance.now() apart, whether or not the render
\* that follows the first has happened.
C30_AcceptedTriggersApart ==
    [][ (lastAccepted # << >> /\ lastAccepted' # lastAccepted) =>
          lastAccepted'[1] - lastAccepted[1] >= Ms(COOLDOWN_MS) ]_vars

\* ============================================== claims on frame differencing
\* A frame callback that found a frame with dimensions.
FrameProcessedStep ==
    /\ lastFrame' # lastFrame
    /\ lastFrame'[1].size[1] # 0
    /\ lastFrame'[1].size[2] # 0

\* C31: a frame processed while no previous frame is stored emits no delta
\* and is stored; and the first frame processed after the source's width or
\* height differs from those of the stored frame emits no delta.
C31_NoDeltaWithoutComparableFrame ==
    [][ FrameProcessedStep =>
          /\ previousFrame = << >> =>
                lastFrame'[1].emitted = << >> /\ previousFrame' # << >>
          /\ (lastFrame # << >> /\ lastFrame[1].storedOf # << >>
                 /\ lastFrame[1].storedOf[1] # lastFrame'[1].size) =>
                lastFrame'[1].emitted = << >> ]_vars

\* ============================================ claims on calibration progress
\* C32: every calibration run ends: whenever isCalibrating is true it is
\* false again later, whether the run has no video element, one that
\* presents frames, or one that presents none.
C32_CalibrationEnds == isCalibrating ~> ~isCalibrating

\* ============================================== claims on the sample summary
\* C33: when n >= 1 exchanges of a run survive, the published offset is the
\* clockOffset of a survivor that stands at index floor(n / 2) when the
\* survivors are ordered by RTT, and the published upload and download
\* latencies are the arithmetic means over all n survivors.
C33_MedianOffsetMeanLatency ==
    [][ CalibObservedStep =>
          \A in \in { calibIn'[1] } :
            LET smp(i) == AsymSample(in.asym[i]).smp
                kept == { i \in 1..SAMPLE_COUNT : AsymSample(in.asym[i]).keep }
                n == Cardinality(kept)
                total(f(_)) == SumSeq([ i \in 1..SAMPLE_COUNT |->
                                          IF i \in kept THEN f(i) ELSE 0 ])
                up(i) == smp(i).uploadEst
                down(i) == smp(i).downloadEst
            IN  n >= 1 =>
                  /\ \E m \in kept :
                       /\ stats'.networkOffset = smp(m).clockOffset
                       /\ Cardinality({ i \in kept : smp(i).rtt < smp(m).rtt })
                            <= n \div 2
                       /\ Cardinality({ i \in kept : smp(i).rtt <= smp(m).rtt })
                            >= n \div 2 + 1
                  /\ n * stats'.uploadLatency = total(up)
                  /\ n * stats'.downloadLatency = total(down) ]_vars

\* A run with three survivors of 86, 40 and 60 ms RTT has published the
\* offset of the 60 ms one, which is neither the first nor the fastest, and
\* the mean latency of 30 ms.
C33_Witness ==
    /\ calibIn # << >>
    /\ { i \in 1..SAMPLE_COUNT : calibIn[1].asym[i].ok } = { 2, 5, 6 }
    /\ stats.isCalibrated
    /\ stats.networkOffset = Ms(RefMinusPerf - DateMinusPerf + 10)
    /\ stats.uploadLatency = Ms(30)
    /\ stats.downloadLatency = Ms(30)

\* ================================================ claims on message handling
\* Everything but the log, the two configurations and the record of the last
\* config-change.
BesidesLogAndConfig ==
    << isConnected, offset, stats, syncVars, channel, gateCalls, lastEval,
       motionVars, frameVars, peerVars >>

\* C34: a received gate-trigger puts exactly one event in front of the log
\* and changes nothing else; clear-events empties the log and leaves
\* gateConfig and distanceConfig alone; distance-change changes only
\* distanceConfig; events leave the log only when a clear-events or a
\* config-change empties it, and the stored events are never altered.
C34_HandlersChangeOnlyTheirOwn ==
    [][ /\ Len(recentEvents') > Len(recentEvents) =>
              /\ Len(recentEvents') = Len(recentEvents) + 1
              /\ Tail(recentEvents') = recentEvents
              /\ UNCHANGED << gateConfig, distanceConfig, BesidesLogAndConfig >>
        /\ (recentEvents # << >> /\ recentEvents' = << >> /\ lastConfig' = << >>)
             => UNCHANGED << gateConfig, distanceConfig, BesidesLogAndConfig >>
        /\ distanceConfig' # distanceConfig =>
              UNCHANGED << recentEvents, gateConfig, BesidesLogAndConfig >>
        /\ \/ recentEvents' = recentEvents
           \/ recentEvents' = << >>
           \/ Tail(recentEvents') = recentEvents ]_vars

\* A log of three events next to a changed gate count and saved distances:
\* triggers were received after the last clearing and the configuration
\* messages.
C34_Witness ==
    /\ Len(recentEvents) = 3
    /\ gateConfig = 3
    /\ distanceConfig = << 10, 20, 30 >>

\* ================================================ claims on the size of steps
\* C35: the offset a drift-correction cycle returns lies between the offset
\* it started from and the offset of its best sample, both included, and is
\* at most 15 ms (50 x 0.3) away from the offset it started from.
C35_NoOvershoot ==
    [][ (CycleFinishStep /\ cycles[1].samples # << >>) =>
          \A cur \in { cycles[1].cur } :
            \A best \in { BestOffsetSample(cycles[1].samples) } :
              \A ret \in { lastSync'[1].ret } :
                 /\ Min2(cur, best) <= ret
                 /\ ret <= Max2(cur, best)
                 /\ Abs(ret - cur) <= Ms(15) ]_vars

\* A cycle that started 14 ms above the exact offset, and whose best sample
\* was 56 ms above where it started, has returned a step of the full 15 ms.
C35_Witness ==
    /\ lastSync # << >>
    /\ lastSync[1].outcome = "applied"
    /\ lastSync[1].ret = Ms(RefMinusPerf) + Ms(14) + Ms(15)
    /\ cycles = << >>

\* ============================================== claims on one-way estimates
\* The four timestamps of an exchange: t1 and t4 are read from the client's
\* Date.now(), t2 and t3 from the server's clock.
ExchangeTimes(e) ==
    [ t1 |-> Ms(e.start + DateMinusPerf),
      t2 |-> Ms(e.start + e.up + RefMinusPerf),
      t3 |-> Ms(e.start + e.up + e.proc + RefMinusPerf),
      t4 |-> Ms(e.start + e.up + e.proc + e.down + DateMinusPerf) ]

\* C36: for every answered exchange (t1, t2, t3, t4) the upload and the
\* download estimate are equal, both ((t2 - t1) + (t4 - t3)) / 2, and their
\* sum is the round trip less the server's processing time, (t4 - t1) -
\* (t3 - t2); so the published upload and download latencies are equal too.
C36_EstimatesAreHalfTheNetworkTime ==
    [][ CalibObservedStep =>
          \A in \in { calibIn'[1] } :
            /\ \A i \in 1..SAMPLE_COUNT :
                 in.asym[i].ok =>
                   \A t \in { ExchangeTimes(in.asym[i]) } :
                     \A smp \in { AsymSample(in.asym[i]).smp } :
                        /\ smp.uploadEst = smp.downloadEst
                        /\ 2 * smp.uploadEst = (t.t2 - t.t1) + (t.t4 - t.t3)
                        /\ smp.uploadEst + smp.downloadEst
                             = (t.t4 - t.t1) - (t.t3 - t.t2)
            /\ measureAsymmetricLatency(in.asym) # << >> =>
                 stats'.uploadLatency = stats'.downloadLatency ]_vars

\* A run has published equal latencies of 30 ms from exchanges that took 10
\* and 30, 40 and 20, and 50 and 30 ms on the way up and down, the last with
\* 6 ms of processing on the server.
C36_Witness ==
    /\ calibIn # << >>
    /\ calibIn[1].asym[2] = [ AsymEntry(TRUE, 50, 30) EXCEPT !.proc = 6 ]
    /\ calibIn[1].asym[5] = AsymEntry(TRUE, 10, 30)
    /\ stats.isCalibrated
    /\ stats.networkRTT = Ms(62)
    /\ stats.uploadLatency = stats.downloadLatency

\* ================================================ claims on the busy flag
\* C37: a cycle that ends, whether it applied a correction, rejected every
\* sample or met a probe error, leaves the flag cleared; the flag is set
\* only while a cycle is in flight; and a firing of the timer that finds no
\* cycle in flight starts one.
C37_FlagClearedOnEveryExit ==
    /\ [][ CycleEndStep =>
             /\ ~isSyncing'
             /\ lastSync' # << >>
             /\ lastSync'[1].outcome \in { "applied", "all_rejected", "error" }
         ]_vars
    /\ [](isSyncing <=> cycles # << >>)
    /\ [][ (TimerFiresStep /\ cycles = << >>) =>
             /\ Len(cycles') = 1
             /\ cycles'[1].i = 0
             /\ isSyncing' ]_vars

\* A cycle is in flight that the timer started after the cycle before it
\* had ended on a probe error.
C37_Witness ==
    /\ lastSync # << >>
    /\ lastSync[1].outcome = "error"
    /\ fired = 2
    /\ Len(cycles) = 1
    /\ isSyncing

\* Number of times onEvent of peer p was called with event id, and number of
\* copies of the event in a queue of messages in flight.
Delivered(p, id) ==
    Cardinality({ i \in 1..Len(onEventLog[p]) : onEventLog[p][i] = id })

InFlight(queue, id) ==
    Cardinality({ i \in 1..Len(queue) : /\ queue[i].msg.type = "EVENT"
                                        /\ queue[i].msg.id = id })

NothingInFlight ==
    \A c \in Clients : wire[c].up = << >> /\ wire[c].down = << >>

Settled(r) ==
    /\ timeReqs[r].resolved # << >>
    /\ r \notin pendingRequests[timeReqs[r].by]

AllSettled == \A r \in 1..Len(timeReqs) : Settled(r)

\* What a resolved call was resolved with: the host's stamp if the answer
\* came in less than 2000 ms after the call, the client's Date.now() 2000 ms
\* after the call if it came later or never, either of the two if it came
\* just as the timer fired; and the client's Date.now() at the call if the
\* connection was not open.
ResolvedAsTimed(r) ==
    \A q \in { timeReqs[r] } :
      q.resolved # << >> =>
        \A v \in { q.resolved[1] } :
          /\ v.from = "host" =>
               /\ q.arrived = << v.at >>
               /\ v.at <= q.sentAt + 2000
               /\ q.stamp = << v.value >>
          /\ v.from = "local" =>
               /\ v.value = PeerDate(q.by, v.at)
               /\ \/ v.at = q.sentAt /\ q.stamp = << >>
                  \/ /\ v.at = q.sentAt + 2000
                     /\ q.arrived # << >> => q.arrived[1] >= v.at
          /\ (q.arrived # << >> /\ q.arrived[1] < q.sentAt + 2000)
               => v.from = "host"

\* A TIME_RESP comes in whose reqId is not in the pending-request table.
StrayResponse(r) ==
    /\ timeReqs[r].arrived = << >>
    /\ timeReqs'[r].arrived # << >>
    /\ r \notin pendingRequests[timeReqs[r].by]

\* C39: every getServerTime() call on a client resolves in the end and its
\* entry leaves the pending-request table; a promise once resolved keeps its
\* value; the value is the host's serverTime if the matching TIME_RESP came
\* within 2000 ms and the client's local time otherwise; and a TIME_RESP that
\* finds no pending entry resolves nothing and changes nothing.
C39_ResolvesOnceHostOrLocal ==
    /\ [](\A r \in 1..Len(timeReqs) : ResolvedAsTimed(r))
    /\ [][\A r \in 1..Len(timeReqs) :
            /\ timeReqs[r].resolved # << >>
                 => timeReqs'[r].resolved = timeReqs[r].resolved
            /\ StrayResponse(r)
                 => /\ timeReqs'[r].resolved = timeReqs[r].resolved
                    /\ UNCHANGED << pendingRequests, syncLoop, peerOffset >>
            /\ (~timeReqs[r].timer /\ timeReqs[r].resolved # << >>)
                 => Settled(r)']_vars
    /\ ~AllSettled ~> AllSettled

\* One call was resolved with the host's time, one timed out and was
\* resolved with local time before its answer came in late, and all calls
\* are settled.
C39_Witness ==
    /\ AllSettled
    /\ \E r \in 1..Len(timeReqs) : timeReqs[r].resolved[1].from = "host"
    /\ \E r \in 1..Len(timeReqs) :
         /\ timeReqs[r].resolved[1].from = "local"
         /\ timeReqs[r].arrived # << >>
         /\ timeReqs[r].arrived[1] > timeReqs[r].resolved[1].at

\* The startup sync of client c is complete and every one of its requests
\* was answered by the host in no time.
SyncedWithoutLatency(c) ==
    /\ syncLoop[c].pc = "done"
    /\ \A r \in 1..Len(timeReqs) :
         (timeReqs[r].by = c /\ timeReqs[r].purpose = "sync")
           => /\ timeReqs[r].resolved # << >>
              /\ timeReqs[r].resolved[1].from = "host"
              /\ timeReqs[r].resolved[1].at = timeReqs[r].sentAt

\* C40: after a client's startup sync over a network without latency, now()
\* on the client and now() on the host are equal at the same instant.
C40_SameClockAfterSync ==
    \A c \in Clients : SyncedWithoutLatency(c) => PeerNow(c) = PeerNow(Host)

====
